---- MODULE Spec2Model ----
(***************************************************************************)
(* A model of the conflation pipeline of OpenStreetMapSpeeds/conflation:   *)
(* the trace quality filter (trace_filter.py), the trace-pulling workers   *)
(* (conflation/trace_fetching/mapillary.py), the edge speed extractor, the *)
(* edge classifiers and the map-matching workers                           *)
(* (conflation/map_matching/valhalla.py), the sequencing of the steps in   *)
(* conflation/main.py, and the aggregation with its interpolation /        *)
(* extrapolation engine (conflation/aggregation.py).                       *)
(*                                                                         *)
(* Python lists are modelled as functions over 0..n-1, so that every index *)
(* below is the index of the source.  An empty slot (Python None) is the   *)
(* empty tuple None, a filled slot holding v is the one-element tuple      *)
(* <<v>>; an Optional[str] is modelled the same way.  Speeds are integers  *)
(* (km/h); a median, which may be a half, is carried as twice its value.   *)
(***************************************************************************)
EXTENDS Integers, Sequences, FiniteSets, TLC

VARIABLES
    \* aggregation.perform_interp_extrap / measurements_to_config
    config_in,      \* the grid handed to perform_interp_extrap
    config,         \* the grid it returns (BASE_CONFIG before the call)
    df_data,        \* the raw rows measurements_to_config's DataFrame is grouped from
    df_scope,       \* <<country, principal_subdivision>> given to measurements_to_config
    grid_pc,        \* "start" before the call, "done" once it has returned, "again"
                    \* after a second call on the result, "raised" after an exception
    \* valhalla.add_map_matches_for_shape
    map_matches,        \* the accumulator: country -> region -> list of tuples
    map_matches_before, \* the accumulator when the current call began
    prev_t,             \* the running previous elapsed time of the loop
    ex_pc,              \* "idle" between calls, "loop" inside the edge loop, "raised"
    ex_outcome,         \* how the last call ended
    ex_resp,            \* status and shape of the last response
    ex_shapes,          \* shapes posted so far
    ex_edges,           \* interior edges walked so far, over all shapes
    ex_edge,            \* the edge of resp["edges"] read last: its position in the
                        \* list, its length and its end elapsed time
    \* trace_filter.run
    trace_data,          \* the list of sequences given to run
    filtered_trace_data, \* the list it returns
    tf_verdicts,         \* for each sequence of trace_data, the check that dropped it
    tf_pc,               \* "start" before the call, "done" once it has returned,
                         \* "refiltered" once it has returned from a second call
    \* aggregation.run
    map_match_files,     \* the files under map_matches_dir, in the order os.walk lists them
    config_file,         \* the final config file: "absent", "stale" (of an earlier run) or "written"
    final_config,        \* the list of grids dumped to the file
    final_sources,       \* for each grid of final_config, its scope and the raw rows it was built from
    agg_pc,              \* "start" before the call, "done" once it has returned
    \* valhalla.classify_density / get_type_for_edge (line 201)
    cl_edge,             \* the edge object: use, and roundabout and sign when present
    cl_density,          \* the density value of the edge
    cl_class,            \* the density class returned, None before the call
    cl_type,             \* the type returned, None before the call
    cl_pc,               \* "start" before the calls, "done" once they have returned
    \* main / valhalla.run / map_match_for_bbox / write_map_matches
    main_pc,             \* where main is: "map_matching", "aggregating", "done", "killed"
    mm_run,              \* the number of the current invocation of main
    mm_task,             \* for each bbox section, the state of its map_match_for_bbox call
    mm_traces,           \* for each bbox section, whether its trace file is "unprocessed" or "processed"
    mm_disk,             \* for each region file name, its rows, or None when it does not exist
    valhalla_finished_bbox_sections, \* the shared counter of valhalla.run
    mm_log,              \* for each region and row, how often the row was handed to pickle.dump
    mm_writers,          \* for each bbox section, the invocations (run numbers) that wrote a file
    \* mapillary.run / pull_filter_and_save_trace_for_sequence_ids
    sq_task,             \* for each sequence-ID block, the state of its call
    sq_disk,             \* for each block, its trace file: "absent", "trace" or "processed"
    finished_sequence_id_blocks, \* the shared counter of the trace-pulling phase
    finished_bbox_sections,      \* the shared counter of the sequence-ID phase
    bbox_sections_done   \* finished_bbox_sections when the trace-pulling phase began

gridVars == <<config_in, config, df_data, df_scope, grid_pc>>
extractVars == <<map_matches, map_matches_before, prev_t, ex_pc, ex_outcome,
                 ex_resp, ex_shapes, ex_edges, ex_edge>>
filterVars == <<trace_data, filtered_trace_data, tf_verdicts, tf_pc>>
vars == <<config_in, config, df_data, df_scope, grid_pc,
          map_matches, map_matches_before, prev_t, ex_pc, ex_outcome,
          ex_resp, ex_shapes, ex_edges, ex_edge,
          trace_data, filtered_trace_data, tf_verdicts, tf_pc,
          map_match_files, config_file, final_config, final_sources, agg_pc,
          cl_edge, cl_density, cl_class, cl_type, cl_pc,
          main_pc, mm_run, mm_task, mm_traces, mm_disk,
          valhalla_finished_bbox_sections, mm_log, mm_writers,
          sq_task, sq_disk, finished_sequence_id_blocks, finished_bbox_sections,
          bbox_sections_done>>
aggVars == <<map_match_files, config_file, final_config, final_sources, agg_pc>>
classifyVars == <<cl_edge, cl_density, cl_class, cl_type, cl_pc>>
matchVars == <<main_pc, mm_run, mm_task, mm_traces, mm_disk,
               valhalla_finished_bbox_sections, mm_log, mm_writers>>
pullVars == <<sq_task, sq_disk, finished_sequence_id_blocks, finished_bbox_sections,
              bbox_sections_done>>

-----------------------------------------------------------------------------
(* Bounds of the model.                                                    *)

\* at most this many filled slots in an input array of perform_interp_extrap
MaxPresent == 3
\* at most this many rows in the data measurements_to_config is given
MaxObs == 3
\* at most this many shapes are posted to the map-matching service
MaxShapes == 2
\* at most this many interior edges are walked, over all responses
MaxEdges == 4
\* at most this many points in a trace sequence
MaxPoints == 5
\* at most this many files under map_matches_dir
MaxFiles == 2

-----------------------------------------------------------------------------
(* Generic helpers.                                                        *)

None == <<>>
Some(v) == <<v>>
Val(s) == s[1]

Min2(a, b) == IF a <= b THEN a ELSE b
Max2(a, b) == IF a >= b THEN a ELSE b
SetMin(S) == CHOOSE x \in S : \A y \in S : x <= y
SetMax(S) == CHOOSE x \in S : \A y \in S : x >= y

\* a Python list of n empty slots
NoneList(n) == [i \in 0..(n - 1) |-> None]
ListLen(l) == Cardinality(DOMAIN l)

\* Python's round() of the non-negative rational num/den: to the nearest
\* integer, a tie going to the even neighbour.
round(num, den) ==
    LET q == num \div den
        r == num % den
    IN  IF 2 * r < den THEN q
        ELSE IF 2 * r > den THEN q + 1
        ELSE IF q % 2 = 0 THEN q ELSE q + 1

-----------------------------------------------------------------------------
(* aggregation.py: constants.                                              *)

DENSITIES_TO_LINEAR_INTERP == <<"rural", "suburban", "urban">>
TYPES_TO_LINEAR_INTERP == <<"way", "link_exiting", "link_turning", "roundabout">>
SCALAR_TYPES == {"driveway", "alley", "parking_aisle", "drive-through"}
EXTRAP_MAX_SPEED == 140
EXTRAP_MIN_SPEED == 10

Densities == {"rural", "suburban", "urban"}
ArrayTypes == {"way", "link_exiting", "link_turning", "roundabout"}

\* the length BASE_CONFIG gives the array of a type
ArrayLen(type_) == IF type_ \in {"way", "roundabout"} THEN 8 ELSE 5

BASE_DENSITY ==
    [k \in ArrayTypes \cup SCALAR_TYPES |->
        IF k \in ArrayTypes THEN NoneList(ArrayLen(k)) ELSE None]

BASE_CONFIG ==
    [k \in {"iso3166-1", "iso3166-2"} \cup Densities |->
        IF k \in Densities THEN BASE_DENSITY ELSE None]

-----------------------------------------------------------------------------
(* aggregation.perform_interp_extrap, one (density, type) array at a time. *)

\* [i for i, v in enumerate(speeds) if v is not None]
indexes_with_data(speeds) == {i \in DOMAIN speeds : speeds[i] # None}

\* [v for i, v in enumerate(speeds) if v is not None], indexed from 0
values_for_indexes_with_data(speeds) ==
    LET idx == indexes_with_data(speeds)
    IN  [k \in 0..(Cardinality(idx) - 1) |->
            Val(speeds[CHOOSE i \in idx : Cardinality({m \in idx : m < i}) = k])]

\* a guard that keeps only the last comparison of the loop
should_skip_last_pair(speeds) ==
    LET values == values_for_indexes_with_data(speeds)
        n == ListLen(values)
    IN  n >= 2 /\ values[n - 2] < values[n - 1]

\* lines 240-243: should_skip becomes True when, for some i in
\* range(1, len(values)), values[i - 1] < values[i]
should_skip(speeds) ==
    LET values == values_for_indexes_with_data(speeds)
    IN  \E i \in 1..(ListLen(values) - 1) : values[i - 1] < values[i]

\* an interpolation that measures the distance from the wrong neighbour
interp_reversed(speeds, i) ==
    LET idx == indexes_with_data(speeds)
        lo == SetMax({m \in idx : m <= i})
        hi == SetMin({m \in idx : m > i})
        flo == Val(speeds[lo])
        fhi == Val(speeds[hi])
    IN  round(flo * (hi - lo) + (fhi - flo) * (hi - i), hi - lo)

\* an interpolation that drops the fraction instead of rounding
interp_truncated(speeds, i) ==
    LET idx == indexes_with_data(speeds)
        lo == SetMax({m \in idx : m <= i})
        hi == SetMin({m \in idx : m > i})
        flo == Val(speeds[lo])
        fhi == Val(speeds[hi])
    IN  (flo * (hi - lo) + (fhi - flo) * (i - lo)) \div (hi - lo)

\* round(np.interp(i, indexes_with_data, values_for_indexes_with_data)) for
\* min(indexes_with_data) < i < max(indexes_with_data): the line through the
\* present neighbours lo < i < hi, exactly, then rounded.
interp_round(speeds, i) ==
    LET idx == indexes_with_data(speeds)
        lo == SetMax({m \in idx : m <= i})
        hi == SetMin({m \in idx : m > i})
        flo == Val(speeds[lo])
        fhi == Val(speeds[hi])
    IN  round(flo * (hi - lo) + (fhi - flo) * (i - lo), hi - lo)

\* an interpolation step that fills nothing
Interpolate_skipped(speeds) == speeds

\* lines 248-252: the interpolation loop; indexes_with_data and the values
\* are those of the array on entry.
Interpolate(speeds) ==
    LET idx == indexes_with_data(speeds)
    IN  [i \in DOMAIN speeds |->
            IF speeds[i] = None /\ SetMin(idx) < i /\ i < SetMax(idx)
            THEN Some(interp_round(speeds, i))
            ELSE speeds[i]]

\* the low-end value without the cap
LowValue_NoCap(speeds, i, j, slope) == Val(speeds[i]) - (i - j) * slope

\* the high-end value without the floor
HighValue_NoFloor(speeds, i, j, slope) == Val(speeds[i]) + (j - i) * slope

\* line 265: min(speeds[i] - (i - j) * slope, EXTRAP_MAX_SPEED)
LowValue(speeds, i, j, slope) ==
    Min2(Val(speeds[i]) - (i - j) * slope, EXTRAP_MAX_SPEED)

\* line 277: max(speeds[i] + (j - i) * slope, EXTRAP_MIN_SPEED)
HighValue(speeds, i, j, slope) ==
    Max2(Val(speeds[i]) + (j - i) * slope, EXTRAP_MIN_SPEED)

\* lines 263-265: while len(stack) > 0: j = stack.pop(); speeds[j] = ...
RECURSIVE PopFillLow(_, _, _, _)
PopFillLow(speeds, i, slope, stack) ==
    IF Len(stack) = 0 THEN speeds
    ELSE LET j == stack[Len(stack)]
         IN  PopFillLow([speeds EXCEPT ![j] = Some(LowValue(speeds, i, j, slope))],
                        i, slope, SubSeq(stack, 1, Len(stack) - 1))

\* lines 274-277, the same at the other end
RECURSIVE PopFillHigh(_, _, _, _)
PopFillHigh(speeds, i, slope, stack) ==
    IF Len(stack) = 0 THEN speeds
    ELSE LET j == stack[Len(stack)]
         IN  PopFillHigh([speeds EXCEPT ![j] = Some(HighValue(speeds, i, j, slope))],
                         i, slope, SubSeq(stack, 1, Len(stack) - 1))

\* lines 256-266: for i in range(len(speeds)), pushing the empty indexes
\* until the first filled one, then filling them and breaking.  Returns the
\* array and the stack the loop leaves behind.
RECURSIVE ExtrapLow(_, _, _)
ExtrapLow(speeds, i, stack) ==
    IF i >= ListLen(speeds) THEN [speeds |-> speeds, stack |-> stack]
    ELSE IF speeds[i] = None THEN ExtrapLow(speeds, i + 1, Append(stack, i))
    ELSE LET slope == Val(speeds[i + 1]) - Val(speeds[i])
         IN  [speeds |-> PopFillLow(speeds, i, slope, stack), stack |-> <<>>]

\* lines 268-278: for i in range(len(speeds) - 1, -1, -1)
RECURSIVE ExtrapHigh(_, _, _)
ExtrapHigh(speeds, i, stack) ==
    IF i < 0 THEN speeds
    ELSE IF speeds[i] = None THEN ExtrapHigh(speeds, i - 1, Append(stack, i))
    ELSE LET slope == Val(speeds[i]) - Val(speeds[i - 1])
         IN  PopFillHigh(speeds, i, slope, stack)

\* line 262, slope = speeds[i + 1] - speeds[i] at the first filled index i of
\* the scan of line 257: an IndexError when i + 1 is past the end and a
\* TypeError when the slot holds None.  No slope is computed on an array
\* without a filled slot.
LowSlopeRaises(speeds) ==
    /\ indexes_with_data(speeds) # {}
    /\ LET i == SetMin(indexes_with_data(speeds))
       IN  \/ i + 1 \notin DOMAIN speeds
           \/ speeds[i + 1] = None

\* line 273, slope = speeds[i] - speeds[i - 1] at the first filled index i of
\* the downward scan of line 268; at i = 0 the index -1 is the last slot.
HighSlopeRaises(speeds) ==
    /\ indexes_with_data(speeds) # {}
    /\ LET i == SetMax(indexes_with_data(speeds))
       IN  speeds[(i - 1) % ListLen(speeds)] = None

\* a filling that afterwards clamps every entry to the extrapolation limits
FillSpeeds_clamped(speeds) ==
    IF Cardinality(indexes_with_data(speeds)) < 2 THEN speeds
    ELSE IF should_skip(speeds) THEN speeds
    ELSE LET low == ExtrapLow(Interpolate(speeds), 0, <<>>)
             out == ExtrapHigh(low.speeds, ListLen(speeds) - 1, low.stack)
         IN  [i \in DOMAIN out |->
                Some(Max2(Min2(Val(out[i]), EXTRAP_MAX_SPEED), EXTRAP_MIN_SPEED))]

\* a filling that spreads a single present value over the whole array
FillSpeeds_flat_single(speeds) ==
    IF Cardinality(indexes_with_data(speeds)) = 0 THEN speeds
    ELSE IF Cardinality(indexes_with_data(speeds)) = 1
    THEN [i \in DOMAIN speeds |->
            speeds[CHOOSE m \in indexes_with_data(speeds) : TRUE]]
    ELSE IF should_skip(speeds) THEN speeds
    ELSE LET low == ExtrapLow(Interpolate(speeds), 0, <<>>)
         IN  ExtrapHigh(low.speeds, ListLen(speeds) - 1, low.stack)

\* a filling that stops after the low end when it wrote something there
FillSpeeds_one_end(speeds) ==
    IF Cardinality(indexes_with_data(speeds)) < 2 THEN speeds
    ELSE IF should_skip(speeds) THEN speeds
    ELSE LET mid == Interpolate(speeds)
             low == ExtrapLow(mid, 0, <<>>)
         IN  IF low.speeds # mid THEN low.speeds
             ELSE ExtrapHigh(low.speeds, ListLen(speeds) - 1, low.stack)

\* the body of the loop of lines 225-278 for one array
FillSpeeds(speeds) ==
    IF Cardinality(indexes_with_data(speeds)) < 2 THEN speeds
    ELSE IF should_skip(speeds) THEN speeds
    ELSE LET low == ExtrapLow(Interpolate(speeds), 0, <<>>)
         IN  ExtrapHigh(low.speeds, ListLen(speeds) - 1, low.stack)

\* the body of the loop for one array ends in an exception of line 262 or 273
FillRaises(speeds) ==
    /\ Cardinality(indexes_with_data(speeds)) >= 2
    /\ ~should_skip(speeds)
    /\ \/ LowSlopeRaises(Interpolate(speeds))
       \/ HighSlopeRaises(ExtrapLow(Interpolate(speeds), 0, <<>>).speeds)

\* perform_interp_extrap(config) ends in an exception
perform_interp_extrap_raises(cfg) ==
    \E k \in Densities : \E t \in ArrayTypes : FillRaises(cfg[k][t])

\* perform_interp_extrap(config): every array of every density; the scalars
\* and the identifiers are not written.
perform_interp_extrap(cfg) ==
    [k \in DOMAIN cfg |->
        IF k \in Densities
        THEN [t \in DOMAIN cfg[k] |->
                IF t \in ArrayTypes THEN FillSpeeds(cfg[k][t]) ELSE cfg[k][t]]
        ELSE cfg[k]]

-----------------------------------------------------------------------------
(* aggregation.measurements_to_config and the grouping of run.             *)

MAP_MATCH_COLS == <<"density", "road_class", "type", "kph">>

ROAD_CLASS_INDEX_MAPPING ==
    [rc \in {"motorway", "trunk", "primary", "secondary", "tertiary",
             "unclassified", "residential", "service"} |->
        CASE rc = "motorway" -> 0
          [] rc = "trunk" -> 1
          [] rc = "primary" -> 2
          [] rc = "secondary" -> 3
          [] rc = "tertiary" -> 4
          [] rc = "unclassified" -> 5
          [] rc = "residential" -> 6
          [] rc = "service" -> 7]

\* the k-th smallest (k from 1) of the values of the non-empty tuple vs
KthSmallest(vs, k) ==
    CHOOSE v \in {vs[i] : i \in DOMAIN vs} :
        /\ Cardinality({i \in DOMAIN vs : vs[i] < v}) < k
        /\ Cardinality({i \in DOMAIN vs : vs[i] <= v}) >= k

\* a median that takes the upper of the two middle values
Median2_upper(vs) == 2 * KthSmallest(vs, (Len(vs) \div 2) + 1)

\* twice the median of the values of vs: the middle value, or the mean of the
\* two middle values
Median2(vs) ==
    IF Len(vs) % 2 = 1 THEN 2 * KthSmallest(vs, (Len(vs) + 1) \div 2)
    ELSE KthSmallest(vs, Len(vs) \div 2) + KthSmallest(vs, (Len(vs) \div 2) + 1)

\* the kph column of the rows of data with the key <<density, road_class, type>>
GroupValues(data, key) ==
    LET RECURSIVE Pick(_)
        Pick(i) ==
            IF i > Len(data) THEN <<>>
            ELSE IF <<data[i][1], data[i][2], data[i][3]>> = key
                 THEN <<data[i][4]>> \o Pick(i + 1)
                 ELSE Pick(i + 1)
    IN  Pick(1)

\* pd.DataFrame(data, columns=MAP_MATCH_COLS).groupby(MAP_MATCH_COLS[:-1]).median():
\* one row per key, holding (twice) the median of the group's kph
groupby_median(data) ==
    [key \in {<<data[i][1], data[i][2], data[i][3]>> : i \in DOMAIN data} |->
        Median2(GroupValues(data, key))]

\* groupby sorts the keys: the alphabetical rank of a density, a road class
\* and a type
DensityRank(d) == CASE d = "rural" -> 0 [] d = "suburban" -> 1 [] d = "urban" -> 2
RoadClassRank(rc) ==
    CASE rc = "motorway" -> 0 [] rc = "primary" -> 1 [] rc = "residential" -> 2
      [] rc = "secondary" -> 3 [] rc = "service" -> 4 [] rc = "tertiary" -> 5
      [] rc = "trunk" -> 6 [] rc = "unclassified" -> 7
TypeRank(t) ==
    CASE t = "alley" -> 0 [] t = "drive-through" -> 1 [] t = "driveway" -> 2
      [] t = "link_exiting" -> 3 [] t = "link_turning" -> 4 [] t = "other" -> 5
      [] t = "parking_aisle" -> 6 [] t = "roundabout" -> 7 [] t = "way" -> 8
KeyRank(key) ==
    (DensityRank(key[1]) * 8 + RoadClassRank(key[2])) * 9 + TypeRank(key[3])

\* the truth value Python gives an Optional[str]
Truthy(x) == x # None /\ Val(x) # ""

\* a copy of BASE_CONFIG that keeps the key of an identifier it is not given
WithIdentifiers_keeps_null(country, principal_subdivision) ==
    [k \in DOMAIN BASE_CONFIG |->
        IF k = "iso3166-1" THEN (IF Truthy(country) THEN country ELSE None)
        ELSE IF k = "iso3166-2"
             THEN (IF Truthy(principal_subdivision) THEN principal_subdivision ELSE None)
        ELSE BASE_CONFIG[k]]

\* lines 188-197: the deep copy of BASE_CONFIG with each identifier set, or
\* its key deleted
WithIdentifiers(country, principal_subdivision) ==
    [k \in (Densities
            \cup (IF Truthy(country) THEN {"iso3166-1"} ELSE {})
            \cup (IF Truthy(principal_subdivision) THEN {"iso3166-2"} ELSE {})) |->
        IF k = "iso3166-1" THEN country
        ELSE IF k = "iso3166-2" THEN principal_subdivision
        ELSE BASE_CONFIG[k]]

\* lines 200-212: one row of df.iterrows()
ApplyRow(cfg, key, kph2) ==
    LET density == key[1]
        road_class == key[2]
        type_ == key[3]
        kph == round(kph2, 2)
    IN  IF type_ \in {"way", "roundabout"}
        THEN [cfg EXCEPT ![density][type_][ROAD_CLASS_INDEX_MAPPING[road_class]] = Some(kph)]
        ELSE IF type_ \in {"link_exiting", "link_turning"}
                /\ ROAD_CLASS_INDEX_MAPPING[road_class] < 5
        THEN [cfg EXCEPT ![density][type_][ROAD_CLASS_INDEX_MAPPING[road_class]] = Some(kph)]
        ELSE IF type_ \in {"driveway", "alley", "parking_aisle", "drive-through"}
        THEN [cfg EXCEPT ![density][type_] = Some(kph)]
        ELSE cfg

\* lines 188-212: the grid before gap filling; the rows are taken in the
\* sorted order of their keys
RECURSIVE IterRows(_, _, _)
IterRows(cfg, df, todo) ==
    IF todo = {} THEN cfg
    ELSE LET key == CHOOSE k \in todo : \A o \in todo : KeyRank(k) <= KeyRank(o)
         IN  IterRows(ApplyRow(cfg, key, df[key]), df, todo \ {key})

populate_config(df, country, principal_subdivision) ==
    IterRows(WithIdentifiers(country, principal_subdivision), df, DOMAIN df)

\* measurements_to_config(df, country, principal_subdivision)
measurements_to_config(df, country, principal_subdivision) ==
    perform_interp_extrap(populate_config(df, country, principal_subdivision))

-----------------------------------------------------------------------------
(* conflation/util.py: the name of a map-match file, and aggregation.run.  *)
(* A file name is a tuple of characters, so that run's split of the name   *)
(* is computed and not assumed.                                            *)

MAP_MATCH_REGION_FILENAME_DELIMITER == <<"-">>

\* the characters of the country and region codes of the model
Chars(str) ==
    CASE str = "" -> <<>>
      [] str = "CA" -> <<"C", "A">>
      [] str = "TX" -> <<"T", "X">>
      [] str = "IDF" -> <<"I", "D", "F">>
      [] str = "US" -> <<"U", "S">>
      [] str = "FR" -> <<"F", "R">>

Str(chars) ==
    CHOOSE str \in {"", "CA", "TX", "IDF", "US", "FR"} : Chars(str) = chars

\* get_map_match_region_filename_with_identifier(country_dir, region), the
\* file name within country_dir; uuid8 is str(uuid.uuid4())[:8]
get_map_match_region_filename_with_identifier(region, uuid8) ==
    Chars(region) \o MAP_MATCH_REGION_FILENAME_DELIMITER \o uuid8
        \o <<".", "p", "i", "c", "k", "l", "e">>

\* name.split(sep)[0]: the characters before the first sep, all if none
SplitFirst(name, sep) ==
    IF \E i \in DOMAIN name : name[i] = sep
    THEN SubSeq(name, 1, (CHOOSE i \in DOMAIN name :
                            /\ name[i] = sep
                            /\ \A k \in 1..(i - 1) : name[k] # sep) - 1)
    ELSE name

\* line 97: file.split(".")[0].split(MAP_MATCH_REGION_FILENAME_DELIMITER)[0]
RegionOfFile(name) ==
    Str(SplitFirst(SplitFirst(name, "."), MAP_MATCH_REGION_FILENAME_DELIMITER[1]))

\* the countries of the files, in the order os.walk comes to their directories
RECURSIVE CountriesInOrder(_, _)
CountriesInOrder(files, i) ==
    IF i > Len(files) THEN <<>>
    ELSE IF \E k \in 1..(i - 1) : files[k].country = files[i].country
         THEN CountriesInOrder(files, i + 1)
         ELSE <<files[i].country>> \o CountriesInOrder(files, i + 1)

\* country data that takes a file's rows only when its region is known
ExtendCountry_in_region_branch(country_level_data, region, map_match_data) ==
    IF region # "" THEN country_level_data \o map_match_data ELSE country_level_data

\* line 121: country_level_data.extend(map_match_data)
ExtendCountry(country_level_data, region, map_match_data) ==
    country_level_data \o map_match_data

\* lines 95-121: the loop over the files of one country directory, from file
\* i on.  st.regions is the dict regions as the list of its keys in insertion
\* order (region_keys) and the rows of each (region_rows).
RECURSIVE FileLoop(_, _, _, _)
FileLoop(files, country, i, st) ==
    IF i > Len(files) THEN st
    ELSE IF files[i].country # country \/ ~files[i].readable
         THEN FileLoop(files, country, i + 1, st)
         ELSE LET region == RegionOfFile(files[i].name)
                  map_match_data == files[i].rows
                  keys == IF region # "" /\ ~(\E k \in DOMAIN st.region_keys :
                                                    st.region_keys[k] = region)
                          THEN Append(st.region_keys, region)
                          ELSE st.region_keys
                  rows == IF region = "" THEN st.region_rows
                          ELSE IF region \in DOMAIN st.region_rows
                               THEN [st.region_rows EXCEPT
                                        ![region] = @ \o map_match_data]
                               ELSE [r \in DOMAIN st.region_rows \cup {region} |->
                                        IF r = region THEN map_match_data
                                        ELSE st.region_rows[r]]
              IN  FileLoop(files, country, i + 1,
                    [region_keys |-> keys,
                     region_rows |-> rows,
                     country_level_data |->
                        ExtendCountry(st.country_level_data, region, map_match_data)])

\* a source of a grid: its scope and the raw rows handed to the DataFrame
Source(country, region, data) == [country |-> country, region |-> region, data |-> data]

\* lines 123-142 for one country: the sources of the region grids, then of
\* the country grid when the country has data
CountrySources(country, st) ==
    [k \in DOMAIN st.region_keys |->
        Source(Some(country), Some(st.region_keys[k]), st.region_rows[st.region_keys[k]])]
    \o (IF Len(st.country_level_data) # 0
        THEN <<Source(Some(country), None, st.country_level_data)>>
        ELSE <<>>)

\* lines 87-150: the walk over the country directories, from the k-th on;
\* acc.sources are the sources of the grids appended to final_config so far
RECURSIVE WalkLoop(_, _, _, _)
WalkLoop(files, countries, k, acc) ==
    IF k > Len(countries)
    THEN acc.sources
            \o (IF Len(acc.world_level_data) # 0
                THEN <<Source(None, None, acc.world_level_data)>>
                ELSE <<>>)
    ELSE LET st == FileLoop(files, countries[k], 1,
                        [region_keys |-> <<>>, region_rows |-> <<>>,
                         country_level_data |-> <<>>])
         IN  WalkLoop(files, countries, k + 1,
                [sources |-> acc.sources \o CountrySources(countries[k], st),
                 world_level_data |->
                    IF Len(st.country_level_data) # 0
                    THEN acc.world_level_data \o st.country_level_data
                    ELSE acc.world_level_data])

\* the sources of the grids of final_config, in order
RunSources(files) ==
    WalkLoop(files, CountriesInOrder(files, 1), 1,
             [sources |-> <<>>, world_level_data |-> <<>>])

\* a run that dumps final_config whatever its length
WritesConfig_always(fc) == TRUE

\* lines 152-153: nothing is written when final_config is empty
WritesConfig(fc) == Len(fc) # 0

-----------------------------------------------------------------------------
(* conflation/map_matching/valhalla.py: the edge speed extractor.          *)

MAXIMUM_SPEED == 160
DENSITY_CLASSIFICATIONS == <<"rural", "suburban", "urban">>

\* MAXIMUM_UNMATCHED_PERCENTAGE = 0.25, as the fraction 1/4
MAXIMUM_UNMATCHED_PERCENTAGE_NUM == 1
MAXIMUM_UNMATCHED_PERCENTAGE_DEN == 4

\* an unmatched check that also discards at the threshold
has_too_many_unmatched_at_threshold(matched_points) ==
    LET num_unmatched ==
            Cardinality({i \in DOMAIN matched_points :
                            matched_points[i].type = "unmatched"})
    IN  num_unmatched * MAXIMUM_UNMATCHED_PERCENTAGE_DEN
            >= MAXIMUM_UNMATCHED_PERCENTAGE_NUM * Len(matched_points)

\* has_too_many_unmatched(matched_points): num_unmatched / len > 0.25
has_too_many_unmatched(matched_points) ==
    LET num_unmatched ==
            Cardinality({i \in DOMAIN matched_points :
                            matched_points[i].type = "unmatched"})
    IN  num_unmatched * MAXIMUM_UNMATCHED_PERCENTAGE_DEN
            > MAXIMUM_UNMATCHED_PERCENTAGE_NUM * Len(matched_points)

\* a classification whose boundaries belong to the class below
classify_density_inclusive(density) ==
    IF density <= 5 THEN DENSITY_CLASSIFICATIONS[1]
    ELSE IF density <= 11 THEN DENSITY_CLASSIFICATIONS[2]
    ELSE DENSITY_CLASSIFICATIONS[3]

\* classify_density(density)
classify_density(density) ==
    IF density < 5 THEN DENSITY_CLASSIFICATIONS[1]
    ELSE IF density < 11 THEN DENSITY_CLASSIFICATIONS[2]
    ELSE DENSITY_CLASSIFICATIONS[3]

\* a typing that looks at the roundabout flag before the special uses
get_type_for_edge_roundabout_first(edge) ==
    IF "roundabout" \in DOMAIN edge /\ edge.roundabout
    THEN "roundabout"
    ELSE IF edge.use \in {"driveway", "alley", "parking_aisle", "drive_through"}
    THEN (IF edge.use = "drive_through" THEN "drive-through" ELSE edge.use)
    ELSE IF edge.use \in {"ramp", "turn_channel"}
    THEN (IF "sign" \in DOMAIN edge /\ edge.sign # <<>>
          THEN "link_exiting" ELSE "link_turning")
    ELSE "way"

\* get_type_for_edge(edge); a key the edge does not carry is not in its DOMAIN
get_type_for_edge(edge) ==
    IF edge.use \in {"driveway", "alley", "parking_aisle", "drive_through"}
    THEN (IF edge.use = "drive_through" THEN "drive-through" ELSE edge.use)
    ELSE IF "roundabout" \in DOMAIN edge /\ edge.roundabout
    THEN "roundabout"
    ELSE IF edge.use \in {"ramp", "turn_channel"}
    THEN (IF "sign" \in DOMAIN edge /\ edge.sign # <<>>
          THEN "link_exiting" ELSE "link_turning")
    ELSE "way"

\* add_data_to_map_matches(map_matches, country, region, data)
add_data_to_map_matches(mm, country, region, data) ==
    LET withCountry ==
            IF country \in DOMAIN mm THEN mm
            ELSE [c \in DOMAIN mm \cup {country} |->
                    IF c = country THEN <<>> ELSE mm[c]]
        regions == withCountry[country]
        newRegions ==
            IF region \in DOMAIN regions
            THEN [regions EXCEPT ![region] = Append(@, data)]
            ELSE [r \in DOMAIN regions \cup {region} |->
                    IF r = region THEN <<data>> ELSE regions[r]]
    IN  [withCountry EXCEPT ![country] = newRegions]

\* line 192: kph = way_length / t_elapsed_on_way * 3600, the length being
\* given in metres here; the lengths and times of the model make it whole
Kph(length_m, t_elapsed_on_way) == (length_m * 3600) \div (1000 * t_elapsed_on_way)

\* a speed check that lets every edge through
TooFast_never(length_m, t_elapsed_on_way) == FALSE

\* line 195: kph > MAXIMUM_SPEED, decided without rounding
TooFast(length_m, t_elapsed_on_way) ==
    length_m * 3600 > MAXIMUM_SPEED * 1000 * t_elapsed_on_way

\* line 178: Valhalla's "service_other" is OSM's "service"
NormalRoadClass(road_class) ==
    IF road_class # "service_other" THEN road_class ELSE "service"

\* line 201: the tuple of an edge, in the order of MAP_MATCH_COLS
edge_data(e, kph) ==
    <<classify_density(e.density), NormalRoadClass(e.road_class),
      get_type_for_edge(e), kph>>

-----------------------------------------------------------------------------
(* trace_filter.py.  A trace point is [time, lon, lat]; the points of the  *)
(* model lie on one meridian, lat being given in metres of arc, so that    *)
(* haversine is the difference of the lats.  A speed is carried as         *)
(* SpeedScale times its value in km/h.                                     *)

MINIMUM_MEAN_SPEED == 10
MINIMUM_TOTAL_TIME == 120
MINIMUM_TOTAL_DISTANCE == 1000
MAXIMUM_TIME_BETWEEN_ADJACENT_POINTS == 5
MAXIMUM_SPEED_BETWEEN_ADJACENT_POINTS == 160

\* MAXIMUM_POOR_MEASUREMENTS_PERCENT = 0.25, as the fraction 1/4
MAXIMUM_POOR_MEASUREMENTS_PERCENT_NUM == 1
MAXIMUM_POOR_MEASUREMENTS_PERCENT_DEN == 4

\* every time delta of the model divides 120, so 10 * 120 times a speed in
\* km/h (d / 1000 / t * 3600 = 36 * d / (10 * t)) is whole
SpeedScale == 10 * 120

haversine(lon1, lat1, lon2, lat2) ==
    IF lat2 >= lat1 THEN lat2 - lat1 ELSE lat1 - lat2

\* line 68: v_kmph = d / 1000 / t * 3600, times SpeedScale (t # 0)
v_kmph_scaled(d, t) ==
    IF t > 0 THEN (36 * d * 120) \div t ELSE 0 - ((36 * d * 120) \div (0 - t))

\* the noise check with the number of pairs as the denominator
TooManyPoor_per_pair(num_poor_measurements, sequence) ==
    num_poor_measurements * MAXIMUM_POOR_MEASUREMENTS_PERCENT_DEN
        > MAXIMUM_POOR_MEASUREMENTS_PERCENT_NUM * (Len(sequence) - 1)

\* line 80: num_poor_measurements / len(sequence) > MAXIMUM_POOR_MEASUREMENTS_PERCENT
TooManyPoor(num_poor_measurements, sequence) ==
    num_poor_measurements * MAXIMUM_POOR_MEASUREMENTS_PERCENT_DEN
        > MAXIMUM_POOR_MEASUREMENTS_PERCENT_NUM * Len(sequence)

\* a loop whose out-of-order flag is set again by every pair
RECURSIVE PairLoop_last_flag(_, _, _)
PairLoop_last_flag(sequence, i, st) ==
    IF i > Len(sequence) - 1 THEN st
    ELSE LET d == haversine(sequence[i].lon, sequence[i].lat,
                            sequence[i + 1].lon, sequence[i + 1].lat)
             t == sequence[i + 1].time - sequence[i].time
             skip == t < 0
         IN  IF t = 0
             THEN PairLoop_last_flag(sequence, i + 1,
                                     [st EXCEPT !.should_skip_sequence = skip])
             ELSE LET gap == IF t > MAXIMUM_TIME_BETWEEN_ADJACENT_POINTS THEN 1 ELSE 0
                      v == v_kmph_scaled(d, t)
                      fast == IF v > MAXIMUM_SPEED_BETWEEN_ADJACENT_POINTS * SpeedScale
                              THEN 1 ELSE 0
                  IN  PairLoop_last_flag(sequence, i + 1,
                        [should_skip_sequence |-> skip,
                         num_poor_measurements |-> st.num_poor_measurements + gap + fast,
                         total_dist |-> st.total_dist + d,
                         speeds_sum |-> st.speeds_sum + v,
                         speeds_len |-> st.speeds_len + 1])

\* lines 46-74: the loop over the consecutive pairs, from pair i on, carrying
\* the locals of the code; st.speeds_sum and st.speeds_len stand for the list
\* speeds, of which only the mean is read
RECURSIVE PairLoop(_, _, _)
PairLoop(sequence, i, st) ==
    IF i > Len(sequence) - 1 THEN st
    ELSE LET d == haversine(sequence[i].lon, sequence[i].lat,
                            sequence[i + 1].lon, sequence[i + 1].lat)
             t == sequence[i + 1].time - sequence[i].time
             skip == st.should_skip_sequence \/ t < 0
         IN  IF t = 0
             THEN PairLoop(sequence, i + 1, [st EXCEPT !.should_skip_sequence = skip])
             ELSE LET gap == IF t > MAXIMUM_TIME_BETWEEN_ADJACENT_POINTS THEN 1 ELSE 0
                      v == v_kmph_scaled(d, t)
                      fast == IF v > MAXIMUM_SPEED_BETWEEN_ADJACENT_POINTS * SpeedScale
                              THEN 1 ELSE 0
                  IN  PairLoop(sequence, i + 1,
                        [should_skip_sequence |-> skip,
                         num_poor_measurements |-> st.num_poor_measurements + gap + fast,
                         total_dist |-> st.total_dist + d,
                         speeds_sum |-> st.speeds_sum + v,
                         speeds_len |-> st.speeds_len + 1])

\* lines 32-94: the body of the loop of run for one sequence: the check that
\* drops it, or "accepted"
Verdict(sequence) ==
    IF sequence[Len(sequence)].time - sequence[1].time < MINIMUM_TOTAL_TIME
    THEN "min_time"
    ELSE LET st == PairLoop(sequence, 1,
                        [should_skip_sequence |-> FALSE, num_poor_measurements |-> 0,
                         total_dist |-> 0, speeds_sum |-> 0, speeds_len |-> 0])
         IN  IF st.should_skip_sequence THEN "out_of_order"
             ELSE IF TooManyPoor(st.num_poor_measurements, sequence) THEN "noise"
             ELSE IF st.total_dist < MINIMUM_TOTAL_DISTANCE THEN "min_dist"
             ELSE IF st.speeds_sum < MINIMUM_MEAN_SPEED * SpeedScale * st.speeds_len
                  THEN "mean_speed"
             ELSE "accepted"

\* a run that returns the accepted sequences last first
run_trace_filter_reversed(td) ==
    LET kept == SelectSeq(td, LAMBDA sequence : Verdict(sequence) = "accepted")
    IN  [i \in 1..Len(kept) |-> kept[Len(kept) + 1 - i]]

\* run(trace_data): the accepted sequences, in order
run_trace_filter(td) == SelectSeq(td, LAMBDA sequence : Verdict(sequence) = "accepted")

-----------------------------------------------------------------------------
(* The state of each component before it runs; a specification of one      *)
(* component leaves the others there.                                      *)

NoResp == [status |-> 0, has_matched_points |-> FALSE, matched_points |-> <<>>]

GridIdle ==
    /\ config_in = BASE_CONFIG
    /\ config = BASE_CONFIG
    /\ df_data = <<>>
    /\ df_scope = <<>>
    /\ grid_pc = "idle"

AggIdle ==
    /\ map_match_files = <<>>
    /\ config_file = "absent"
    /\ final_config = <<>>
    /\ final_sources = <<>>
    /\ agg_pc = "idle"

FilterIdle ==
    /\ trace_data = <<>>
    /\ filtered_trace_data = <<>>
    /\ tf_verdicts = <<>>
    /\ tf_pc = "idle"

\* no edge read yet
NoEdge == [position |-> "none", length_m |-> 0, elapsed_time |-> 0]

\* the edge e as read at the given position of resp["edges"]
EdgeRead(position, e) ==
    [position |-> position, length_m |-> e.length_m, elapsed_time |-> e.elapsed_time]

ExtractIdle ==
    /\ map_matches = <<>>
    /\ map_matches_before = <<>>
    /\ prev_t = 0
    /\ ex_pc = "idle"
    /\ ex_outcome = "none"
    /\ ex_resp = NoResp
    /\ ex_shapes = 0
    /\ ex_edges = 0
    /\ ex_edge = NoEdge

ClassifyIdle ==
    /\ cl_edge = <<>>
    /\ cl_density = 0
    /\ cl_class = None
    /\ cl_type = None
    /\ cl_pc = "idle"

MatchIdle ==
    /\ main_pc = "idle"
    /\ mm_run = 0
    /\ mm_task = <<>>
    /\ mm_traces = <<>>
    /\ mm_disk = <<>>
    /\ valhalla_finished_bbox_sections = 0
    /\ mm_log = <<>>
    /\ mm_writers = <<>>

PullIdle ==
    /\ sq_task = <<>>
    /\ sq_disk = <<>>
    /\ finished_sequence_id_blocks = 0
    /\ finished_bbox_sections = 0
    /\ bbox_sections_done = 0

-----------------------------------------------------------------------------
(* SpecInterp: perform_interp_extrap applied to a grid of which one array  *)
(* and one scalar are drawn from bounded sets.                             *)

\* the filled values an input array may hold: one below the floor (5), the
\* fixture's 30, 45, 55 of tests.py, and one above the cap (160)
InputSpeeds == {5, 30, 45, 55, 160}

\* the sets of at most MaxPresent indexes of an array of n slots
PresentSets(n) == {T \in SUBSET (0..(n - 1)) : Cardinality(T) <= MaxPresent}

\* the array of n slots filled at the indexes of S with the values f gives
InputArray(n, S, f) == [i \in 0..(n - 1) |-> IF i \in S THEN Some(f[i]) ELSE None]

\* the (density, type) slots the input array is put in
InputSlots ==
    {<<"rural", "way">>, <<"suburban", "link_exiting">>,
     <<"urban", "link_turning">>, <<"urban", "roundabout">>}

InterpInit ==
    /\ \E slot \in InputSlots :
       \E S \in PresentSets(ArrayLen(slot[2])) :
       \E f \in [S -> InputSpeeds] :
            config_in =
                [BASE_CONFIG EXCEPT ![slot[1]][slot[2]] = InputArray(ArrayLen(slot[2]), S, f),
                                    !["rural"]["driveway"] = Some(16),
                                    !["iso3166-1"] = Some("FR")]
    /\ config = BASE_CONFIG
    /\ df_data = <<>>
    /\ df_scope = <<>>
    /\ grid_pc = "start"
    /\ ExtractIdle
    /\ FilterIdle
    /\ AggIdle
    /\ ClassifyIdle
    /\ MatchIdle
    /\ PullIdle

PerformInterpExtrap ==
    /\ grid_pc = "start"
    /\ IF perform_interp_extrap_raises(config_in)
       THEN grid_pc' = "raised" /\ UNCHANGED config
       ELSE grid_pc' = "done" /\ config' = perform_interp_extrap(config_in)
    /\ UNCHANGED <<config_in, df_data, df_scope>>
    /\ UNCHANGED <<extractVars, filterVars, aggVars,
                 classifyVars, matchVars, pullVars>>

\* perform_interp_extrap called on the grid it returned
PerformInterpExtrapAgain ==
    /\ grid_pc = "done"
    /\ config_in' = config
    /\ IF perform_interp_extrap_raises(config)
       THEN grid_pc' = "raised" /\ UNCHANGED config
       ELSE grid_pc' = "again" /\ config' = perform_interp_extrap(config)
    /\ UNCHANGED <<df_data, df_scope>>
    /\ UNCHANGED <<extractVars, filterVars, aggVars,
                 classifyVars, matchVars, pullVars>>

InterpNext == PerformInterpExtrap \/ PerformInterpExtrapAgain

SpecInterp == InterpInit /\ [][InterpNext]_vars

-----------------------------------------------------------------------------
(* SpecGrid: measurements_to_config applied to the medians of a bounded    *)
(* multiset of observation rows.                                           *)

\* the rows the data is drawn from: a way column with a gap to interpolate
\* and ends to extrapolate, links of a rank below and above 5, a scalar type
\* seen on two road classes, a roundabout and a type the schema does not know
GridObs ==
    ({"rural"} \X {"motorway", "tertiary", "service"} \X {"way"} \X {8, 61, 100})
    \cup ({"urban"} \X {"primary", "unclassified"} \X {"link_turning"} \X {40})
    \cup ({"suburban"} \X {"trunk", "residential"} \X {"driveway"} \X {15, 20})
    \cup ({"suburban"} \X {"secondary"} \X {"roundabout", "other"} \X {30})

\* a fixed enumeration of GridObs, to draw each multiset of rows once
GridObsRank(o) == KeyRank(<<o[1], o[2], o[3]>>) * 200 + o[4]

GridScopes ==
    {<<None, None>>, <<Some("FR"), None>>, <<Some("FR"), Some("IDF")>>}

GridInit ==
    /\ \E n \in 0..MaxObs :
       \E data \in [1..n -> GridObs] :
            /\ \A i \in 1..(n - 1) : GridObsRank(data[i]) <= GridObsRank(data[i + 1])
            /\ df_data = data
    /\ df_scope \in GridScopes
    /\ config_in = BASE_CONFIG
    /\ config = BASE_CONFIG
    /\ grid_pc = "start"
    /\ ExtractIdle
    /\ FilterIdle
    /\ AggIdle
    /\ ClassifyIdle
    /\ MatchIdle
    /\ PullIdle

\* run's call measurements_to_config(df.groupby(...).median(), country, region);
\* config_in records the grid as populated, before gap filling
MeasurementsToConfig ==
    /\ grid_pc = "start"
    /\ config_in' = populate_config(groupby_median(df_data), df_scope[1], df_scope[2])
    /\ config' = measurements_to_config(groupby_median(df_data), df_scope[1], df_scope[2])
    /\ grid_pc' = "done"
    /\ UNCHANGED <<df_data, df_scope>>
    /\ UNCHANGED <<extractVars, filterVars, aggVars,
                 classifyVars, matchVars, pullVars>>

GridNext == MeasurementsToConfig

SpecGrid == GridInit /\ [][GridNext]_vars

-----------------------------------------------------------------------------
(* SpecExtract: add_map_matches_for_shape called for one shape after the   *)
(* other on one accumulator, as the comprehension of map_match_for_bbox    *)
(* (line 116) does.  The response is drawn as the code reads it: status    *)
(* and matched_points when it arrives, then one interior edge per          *)
(* iteration of the loop of lines 172-204.                                 *)

Statuses == {200, 400, 500}

MatchedPoint(type_) == [type |-> type_]

\* matched_points of four points with none, one (25%) and two (50%) unmatched
MatchedPointsLists ==
    {<<MatchedPoint("matched"), MatchedPoint("matched"),
       MatchedPoint("interpolated"), MatchedPoint("matched")>>,
     <<MatchedPoint("matched"), MatchedPoint("unmatched"),
       MatchedPoint("interpolated"), MatchedPoint("matched")>>,
     <<MatchedPoint("unmatched"), MatchedPoint("matched"),
       MatchedPoint("unmatched"), MatchedPoint("matched")>>}

\* resp["admins"]
Admins ==
    (0 :> [country_code |-> "US", state_code |-> "CA"]
     @@ 1 :> [country_code |-> "FR", state_code |-> ""])

\* elapsed times (s) and lengths (m): 400 m in 9 s is 160 km/h, 450 m in 9 s
\* is 180 km/h, 400 m in 18 s is 80 km/h, 450 m in 18 s is 90 km/h
ElapsedTimes == {0, 9, 18}
Lengths == {400, 450}

\* the attributes of an edge the classifiers read
EdgeKinds ==
    {[density |-> 3, road_class |-> "service_other", use |-> "driveway",
      roundabout |-> TRUE],
     [density |-> 12, road_class |-> "primary", use |-> "ramp",
      sign |-> <<"exit">>]}

EdgeOf(kind, length_m, t, admin_index) ==
    [k \in DOMAIN kind \cup {"length_m", "elapsed_time", "admin_index"} |->
        CASE k = "length_m" -> length_m
          [] k = "elapsed_time" -> t
          [] k = "admin_index" -> admin_index
          [] OTHER -> kind[k]]

Edges ==
    {EdgeOf(kind, l, t, a) :
        kind \in EdgeKinds, l \in Lengths, t \in ElapsedTimes, a \in DOMAIN Admins}

\* the first and the last edge of a response: only their position, length
\* and end time are recorded, so one kind, one admin and one length (400 m, a
\* speed the check lets through after 9 s or 18 s) stand for all
BoundaryEdges ==
    {e \in Edges : e.use = "ramp" /\ e.admin_index = 0 /\ e.length_m = 400}

\* the responses: a 400, a 500, a 200 without matched_points and a 200 with
\* each list of matched_points
Responses ==
    {[status |-> st, has_matched_points |-> FALSE, matched_points |-> <<>>] :
        st \in Statuses}
    \cup {[status |-> 200, has_matched_points |-> TRUE, matched_points |-> mp] :
            mp \in MatchedPointsLists}

ExtractInit ==
    /\ ExtractIdle
    /\ GridIdle
    /\ FilterIdle
    /\ AggIdle
    /\ ClassifyIdle
    /\ MatchIdle
    /\ PullIdle

\* lines 140-170: the request, the status checks, the unmatched check and
\* the end time of the first edge, resp["edges"][0]
PostShape(status, has_mp, mp, first) ==
    /\ ex_pc = "idle"
    /\ ex_shapes < MaxShapes
    /\ ex_shapes' = ex_shapes + 1
    /\ ex_resp' = [status |-> status, has_matched_points |-> has_mp,
                   matched_points |-> mp]
    /\ map_matches_before' = map_matches
    /\ UNCHANGED <<map_matches, ex_edges>>
    /\ IF status # 200
       THEN IF status = 400
            THEN ex_pc' = "idle" /\ ex_outcome' = "skipped_400"
                 /\ UNCHANGED prev_t /\ ex_edge' = NoEdge
            ELSE ex_pc' = "raised" /\ ex_outcome' = "ConnectionError"
                 /\ UNCHANGED prev_t /\ ex_edge' = NoEdge
       ELSE IF ~has_mp
            THEN ex_pc' = "raised" /\ ex_outcome' = "KeyError"
                 /\ UNCHANGED prev_t /\ ex_edge' = NoEdge
            ELSE IF has_too_many_unmatched(mp)
                 THEN ex_pc' = "idle" /\ ex_outcome' = "too_many_unmatched"
                      /\ UNCHANGED prev_t /\ ex_edge' = NoEdge
                 ELSE ex_pc' = "loop" /\ ex_outcome' = "running"
                      /\ prev_t' = first.elapsed_time
                      /\ ex_edge' = EdgeRead("first", first)
    /\ UNCHANGED <<gridVars, filterVars, aggVars,
                 classifyVars, matchVars, pullVars>>

\* lines 172-204: one iteration of the loop, for the interior edge e
ProcessEdge(e) ==
    /\ ex_pc = "loop"
    /\ ex_edges < MaxEdges
    /\ ex_edges' = ex_edges + 1
    /\ ex_edge' = EdgeRead("interior", e)
    /\ LET admin == Admins[e.admin_index]
           t == e.elapsed_time
           t_elapsed_on_way == t - prev_t
       IN  IF t < prev_t
           THEN /\ ex_pc' = "idle" /\ ex_outcome' = "not_monotonic"
                /\ UNCHANGED <<map_matches, prev_t>>
           ELSE IF t = prev_t
           THEN UNCHANGED <<ex_pc, ex_outcome, map_matches, prev_t>>
           ELSE IF TooFast(e.length_m, t_elapsed_on_way)
           THEN /\ ex_pc' = "idle" /\ ex_outcome' = "too_fast"
                /\ UNCHANGED <<map_matches, prev_t>>
           ELSE /\ map_matches' =
                        add_data_to_map_matches(
                            map_matches, admin.country_code, admin.state_code,
                            edge_data(e, Kph(e.length_m, t_elapsed_on_way)))
                /\ prev_t' = t
                /\ UNCHANGED <<ex_pc, ex_outcome>>
    /\ UNCHANGED <<map_matches_before, ex_resp, ex_shapes>>
    /\ UNCHANGED <<gridVars, filterVars, aggVars,
                 classifyVars, matchVars, pullVars>>

\* the loop runs out of interior edges: the function returns without
\* reading the last edge, resp["edges"][-1]
LoopEnd(last) ==
    /\ ex_pc = "loop"
    /\ ex_pc' = "idle"
    /\ ex_outcome' = "returned"
    /\ ex_edge' = EdgeRead("last", last)
    /\ UNCHANGED <<map_matches, map_matches_before, prev_t, ex_resp, ex_shapes,
                   ex_edges>>
    /\ UNCHANGED <<gridVars, filterVars, aggVars,
                 classifyVars, matchVars, pullVars>>

ExtractNext ==
    \/ \E resp \in Responses, first \in BoundaryEdges :
            PostShape(resp.status, resp.has_matched_points, resp.matched_points, first)
    \/ \E e \in Edges : ProcessEdge(e)
    \/ \E last \in BoundaryEdges : LoopEnd(last)

SpecExtract == ExtractInit /\ [][ExtractNext]_vars

-----------------------------------------------------------------------------
(* SpecFilter: trace_filter.run applied to a list of one sequence whose    *)
(* points are drawn pair by pair from bounded sets.                        *)

\* <<time delta (s), distance (m)>> of a pair of consecutive points: out of
\* order; no time elapsed; slow; 144 km/h; too fast only; too long only
\* (40 m and 1200 m); too long and too fast
Gaps ==
    {<<-1, 40>>, <<0, 0>>, <<1, 0>>, <<1, 40>>, <<1, 6000>>,
     <<120, 40>>, <<120, 1200>>, <<120, 6000>>}

\* the sequence that starts at time 0, lat 0 and goes on by the gaps g
RECURSIVE PointsFrom(_, _, _, _)
PointsFrom(g, i, time, lat) ==
    IF i > Len(g) THEN <<>>
    ELSE <<[time |-> time + g[i][1], lon |-> 0, lat |-> lat + g[i][2]]>>
            \o PointsFrom(g, i + 1, time + g[i][1], lat + g[i][2])

SequenceOf(g) == <<[time |-> 0, lon |-> 0, lat |-> 0]>> \o PointsFrom(g, 1, 0, 0)

\* what follows the drawn sequence in the list: nothing, a sequence that is
\* kept (122 s, 1280 m, one pair over 5 s for four points), or one that is
\* dropped (too short)
FilterTails ==
    {<<>>,
     <<SequenceOf(<< <<120, 1200>>, <<1, 40>>, <<1, 40>> >>)>>,
     <<SequenceOf(<< <<1, 40>> >>)>>}

FilterInit ==
    /\ \E n \in 0..(MaxPoints - 1) :
       \E g \in [1..n -> Gaps] :
       \E tail \in FilterTails :
            trace_data = <<SequenceOf(g)>> \o tail
    /\ filtered_trace_data = <<>>
    /\ tf_verdicts = <<>>
    /\ tf_pc = "start"
    /\ GridIdle
    /\ ExtractIdle
    /\ AggIdle
    /\ ClassifyIdle
    /\ MatchIdle
    /\ PullIdle

TraceFilterRun ==
    /\ tf_pc = "start"
    /\ filtered_trace_data' = run_trace_filter(trace_data)
    /\ tf_verdicts' = [i \in DOMAIN trace_data |-> Verdict(trace_data[i])]
    /\ tf_pc' = "done"
    /\ UNCHANGED trace_data
    /\ UNCHANGED <<gridVars, extractVars, aggVars,
                 classifyVars, matchVars, pullVars>>

\* run called again on the list it has returned
TraceFilterRerun ==
    /\ tf_pc = "done"
    /\ trace_data' = filtered_trace_data
    /\ filtered_trace_data' = run_trace_filter(filtered_trace_data)
    /\ tf_verdicts' = [i \in DOMAIN filtered_trace_data |-> Verdict(filtered_trace_data[i])]
    /\ tf_pc' = "refiltered"
    /\ UNCHANGED <<gridVars, extractVars, aggVars,
                 classifyVars, matchVars, pullVars>>

FilterNext == TraceFilterRun \/ TraceFilterRerun

SpecFilter == FilterInit /\ [][FilterNext]_vars

-----------------------------------------------------------------------------
(* SpecAgg: aggregation.run over the files write_map_matches has left      *)
(* under map_matches_dir.                                                  *)

\* A file is a record: country, the directory it lies in; region, the key
\* its rows were kept under when write_map_matches named it; name, its file
\* name; rows, the list pickled in it; readable, whether pickle.load succeeds.

\* the lists of rows of a file; write_map_matches writes no empty list
AggRowLists ==
    {<< <<"rural", "motorway", "way", 100>> >>,
     << <<"urban", "unclassified", "link_turning", 40>>,
        <<"rural", "tertiary", "way", 8>>,
        <<"rural", "tertiary", "way", 8>> >>}

AggCountries == {"US", "FR"}
AggRegions == {"", "CA", "TX"}

\* str(uuid.uuid4())[:8] of the i-th file written
Uuid8(i) == <<"0", "0", "0", "0", "0", "0", "0", <<"1", "2", "3", "4", "5">>[i]>>

AggInit ==
    /\ \E n \in 0..MaxFiles :
       \E cs \in [1..n -> AggCountries], rs \in [1..n -> AggRegions],
          rows \in [1..n -> AggRowLists], ok \in [1..n -> BOOLEAN] :
            map_match_files =
                [i \in 1..n |->
                    [country |-> cs[i],
                     region |-> rs[i],
                     name |-> get_map_match_region_filename_with_identifier(rs[i], Uuid8(i)),
                     rows |-> rows[i],
                     readable |-> ok[i]]]
    /\ config_file \in {"absent", "stale"}
    /\ final_config = <<>>
    /\ final_sources = <<>>
    /\ agg_pc = "start"
    /\ GridIdle
    /\ ExtractIdle
    /\ FilterIdle
    /\ ClassifyIdle
    /\ MatchIdle
    /\ PullIdle

\* aggregation.run(map_matches_dir, results_dir)
AggregationRun ==
    /\ agg_pc = "start"
    /\ agg_pc' = "done"
    /\ IF config_file # "absent"
       THEN UNCHANGED <<config_file, final_config, final_sources>>
       ELSE LET sources == RunSources(map_match_files)
                fc == [k \in DOMAIN sources |->
                        measurements_to_config(groupby_median(sources[k].data),
                                               sources[k].country, sources[k].region)]
            IN  /\ final_sources' = sources
                /\ IF WritesConfig(fc)
                   THEN config_file' = "written" /\ final_config' = fc
                   ELSE UNCHANGED <<config_file, final_config>>
    /\ UNCHANGED map_match_files
    /\ UNCHANGED <<gridVars, extractVars, filterVars,
                 classifyVars, matchVars, pullVars>>

AggNext == AggregationRun

SpecAgg == AggInit /\ [][AggNext]_vars

-----------------------------------------------------------------------------
(* SpecClassify: classify_density and get_type_for_edge applied to one     *)
(* edge, as line 201 of valhalla.py applies them.                          *)

\* the largest density value drawn
MaxDensity == 16

\* the values of edge["use"]: the four special uses, the two link uses, and
\* two uses that are neither
EdgeUses ==
    {"driveway", "alley", "parking_aisle", "drive_through",
     "ramp", "turn_channel", "road", "track"}

\* the roundabout key: absent, or present with either value
RoundaboutKeys == {<<>>, [roundabout |-> TRUE], [roundabout |-> FALSE]}

\* the sign key: absent, present and empty, or present with one element
SignKeys == {<<>>, [sign |-> <<>>], [sign |-> <<"exit">>]}

\* the edge objects drawn
ClassifyEdges ==
    {[use |-> u] @@ r @@ s : u \in EdgeUses, r \in RoundaboutKeys, s \in SignKeys}

ClassifyInit ==
    /\ cl_edge \in ClassifyEdges
    /\ cl_density \in 0..MaxDensity
    /\ cl_class = None
    /\ cl_type = None
    /\ cl_pc = "start"
    /\ GridIdle
    /\ ExtractIdle
    /\ FilterIdle
    /\ AggIdle
    /\ MatchIdle
    /\ PullIdle

\* line 201: classify_density(density_value) and get_type_for_edge(e)
ClassifyEdge ==
    /\ cl_pc = "start"
    /\ cl_class' = Some(classify_density(cl_density))
    /\ cl_type' = Some(get_type_for_edge(cl_edge))
    /\ cl_pc' = "done"
    /\ UNCHANGED <<cl_edge, cl_density>>
    /\ UNCHANGED <<gridVars, extractVars, filterVars, aggVars, matchVars, pullVars>>

ClassifyNext == ClassifyEdge

SpecClassify == ClassifyInit /\ [][ClassifyNext]_vars

-----------------------------------------------------------------------------
(* SpecPull: the trace-pulling phase of mapillary.run.  The pool runs      *)
(* pull_filter_and_save_trace_for_sequence_ids once per sequence-ID block;  *)
(* the calls of different blocks interleave, and each increment of a       *)
(* shared counter is one step, taken under the lock of the counter.        *)

\* the number of sequence-ID blocks
MaxBlocks == 3
\* the largest number of bbox sections counted by the sequence-ID phase
MaxSections == 2

Blocks == 1..MaxBlocks

\* a call that has not started
QueuedCall == [pc |-> "queued", outcome |-> "none"]

PullInit ==
    /\ sq_task = [b \in Blocks |-> QueuedCall]
    /\ sq_disk \in [Blocks -> {"absent", "trace", "processed"}]
    /\ finished_sequence_id_blocks = 0
    /\ finished_bbox_sections \in 0..MaxSections
    /\ bbox_sections_done = finished_bbox_sections
    /\ GridIdle
    /\ ExtractIdle
    /\ FilterIdle
    /\ AggIdle
    /\ ClassifyIdle
    /\ MatchIdle

\* lines 301-314: the trace file, or its processed name, exists: the call
\* counts itself on finished_bbox_sections and returns
PullSkip(b) ==
    /\ sq_task[b].pc = "queued"
    /\ sq_disk[b] \in {"trace", "processed"}
    /\ finished_bbox_sections' = finished_bbox_sections + 1
    /\ sq_task' = [sq_task EXCEPT ![b] = [pc |-> "returned", outcome |-> "skipped"]]
    /\ UNCHANGED <<sq_disk, finished_sequence_id_blocks, bbox_sections_done>>
    /\ UNCHANGED <<gridVars, extractVars, filterVars, aggVars, classifyVars, matchVars>>

\* lines 317-335: the traces are requested, filtered, dumped to a temporary
\* file and renamed to the trace file; an exception of any of these steps is
\* caught at line 339 and the call returns
PullAndSave(b, raises) ==
    /\ sq_task[b].pc = "queued"
    /\ sq_disk[b] = "absent"
    /\ IF raises
       THEN /\ sq_task' = [sq_task EXCEPT ![b] = [pc |-> "returned", outcome |-> "failed"]]
            /\ UNCHANGED sq_disk
       ELSE /\ sq_task' = [sq_task EXCEPT ![b] = [pc |-> "saved", outcome |-> "none"]]
            /\ sq_disk' = [sq_disk EXCEPT ![b] = "trace"]
    /\ UNCHANGED <<finished_sequence_id_blocks, finished_bbox_sections, bbox_sections_done>>
    /\ UNCHANGED <<gridVars, extractVars, filterVars, aggVars, classifyVars, matchVars>>

\* lines 337-338: the call counts itself on finished_sequence_id_blocks
PullCount(b) ==
    /\ sq_task[b].pc = "saved"
    /\ finished_sequence_id_blocks' = finished_sequence_id_blocks + 1
    /\ sq_task' = [sq_task EXCEPT ![b] = [pc |-> "returned", outcome |-> "pulled"]]
    /\ UNCHANGED <<sq_disk, finished_bbox_sections, bbox_sections_done>>
    /\ UNCHANGED <<gridVars, extractVars, filterVars, aggVars, classifyVars, matchVars>>

PullNext ==
    \E b \in Blocks :
        \/ PullSkip(b)
        \/ \E raises \in BOOLEAN : PullAndSave(b, raises)
        \/ PullCount(b)

SpecPull == PullInit /\ [][PullNext]_vars

-----------------------------------------------------------------------------
(* SpecMatch: the map-matching step and the start of the aggregation in    *)
(* main.  valhalla.run hands one map_match_for_bbox call per bbox section  *)
(* to the pool; the calls interleave step by step.  A call may end in an   *)
(* exception of the map-matching service, of pickle.dump or of os.rename,  *)
(* all caught at line 124, and its worker process may die at any step.     *)
(* SpecMatch is one run of main; SpecRerun lets main be run again over the *)
(* same directories.                                                       *)

\* the number of bbox sections, each with its trace file
MaxTraceFiles == 2
\* the number of invocations of main
MaxRuns == 2
\* the number of shapes in a trace file
TraceShapes == 2

Sections == 1..MaxTraceFiles

\* the regions of the one country the shapes lie in
MatchRegions == {"CA", "TX"}

\* str(uuid.uuid4())[:8]: the eight hexadecimal digits a write may draw
MatchUuids == {Uuid8(1), Uuid8(2)}

\* the names a region file may get in the directory of the country
MatchNames ==
    {get_map_match_region_filename_with_identifier(r, u) : r \in MatchRegions, u \in MatchUuids}

\* the region the edges of shape k of trace file f lie in: the second shape
\* of the first file is in TX, every other shape in CA
ShapeRegion(f, k) == IF f = 1 /\ k = 2 THEN "TX" ELSE "CA"

\* the tuple measured on shape k of trace file f
ShapeRow(f, k) == <<"rural", "primary", "way", 10 * f + k>>

\* a call that the pool has not started
QueuedTask ==
    [pc |-> "queued", outcome |-> "none", k |-> 0, acc |-> <<>>,
     written |-> 0, renamed |-> FALSE, counted |-> FALSE]

\* a call whose worker process is gone, with everything it held
CrashedTask == [QueuedTask EXCEPT !.pc = "crashed", !.outcome = "crashed"]

\* the rows handed to pickle.dump for one region, as a count per row
Logged(counts, rows) ==
    [row \in DOMAIN counts |->
        counts[row] + Cardinality({i \in DOMAIN rows : rows[i] = row})]

\* add_data_to_map_matches on the regions of one country, kept in the order
\* in which the dict got its keys, the order regions.items() yields them in
map_matches_insert(acc, region, row) ==
    IF \E i \in DOMAIN acc : acc[i].region = region
    THEN [i \in DOMAIN acc |->
            IF acc[i].region = region
            THEN [acc[i] EXCEPT !.rows = Append(acc[i].rows, row)]
            ELSE acc[i]]
    ELSE Append(acc, [region |-> region, rows |-> <<row>>])

\* a pool whose result is ready as soon as one call has returned
result_ready_any(tasks) == \E f \in DOMAIN tasks : tasks[f].pc = "returned"

\* result.ready() of lines 58-62: every call of the map has returned
result_ready(tasks) == \A f \in DOMAIN tasks : tasks[f].pc = "returned"

\* a call that goes on with the next shape after an exception
ShapeRaised_continues(t) ==
    [t EXCEPT !.outcome = "shape_raised", !.k = t.k + 1,
              !.pc = IF t.k + 1 < TraceShapes THEN "matching"
                     ELSE IF t.acc = <<>> THEN "renaming" ELSE "writing"]

\* lines 116 and 124: an exception of add_map_matches_for_shape leaves the
\* list comprehension and the try block; the call prints and returns
ShapeRaised(t) == [t EXCEPT !.outcome = "shape_raised", !.pc = "returned", !.acc = <<>>]

MatchInit ==
    /\ main_pc = "map_matching"
    /\ mm_run = 1
    /\ mm_task = [f \in Sections |-> QueuedTask]
    /\ mm_traces = [f \in Sections |-> "unprocessed"]
    /\ mm_disk = [n \in MatchNames |-> None]
    /\ valhalla_finished_bbox_sections = 0
    /\ mm_log = [r \in MatchRegions |->
                    [row \in {ShapeRow(f, k) : f \in Sections, k \in 1..TraceShapes} |-> 0]]
    /\ mm_writers = [f \in Sections |-> {}]
    /\ GridIdle
    /\ ExtractIdle
    /\ FilterIdle
    /\ AggIdle
    /\ ClassifyIdle
    /\ PullIdle

\* lines 104-114: the processed name exists, so the call counts itself and
\* returns; otherwise the traces are loaded and the matching begins
CheckProcessed(f) ==
    /\ mm_task[f].pc = "queued"
    /\ IF mm_traces[f] = "processed"
       THEN /\ valhalla_finished_bbox_sections' = valhalla_finished_bbox_sections + 1
            /\ mm_task' = [mm_task EXCEPT ![f] =
                    [@ EXCEPT !.pc = "returned", !.outcome = "skipped", !.counted = TRUE]]
       ELSE /\ mm_task' = [mm_task EXCEPT ![f] = [@ EXCEPT !.pc = "matching"]]
            /\ UNCHANGED valhalla_finished_bbox_sections
    /\ UNCHANGED <<main_pc, mm_run, mm_traces, mm_disk, mm_log, mm_writers>>
    /\ UNCHANGED <<gridVars, extractVars, filterVars, aggVars, classifyVars, pullVars>>

\* line 116, one element of the list comprehension: the next shape is
\* posted; it adds its tuple to map_matches, adds nothing (a 400 response or
\* a discarded match), or raises.  After the last shape, line 117 chooses
\* between write_map_matches and the rename.
MatchShape(f, outcome) ==
    /\ mm_task[f].pc = "matching"
    /\ LET t == mm_task[f]
           k == t.k + 1
           acc == IF outcome = "matched"
                  THEN map_matches_insert(t.acc, ShapeRegion(f, k), ShapeRow(f, k))
                  ELSE t.acc
       IN  mm_task' = [mm_task EXCEPT ![f] =
                IF outcome = "raised" THEN ShapeRaised(t)
                ELSE [t EXCEPT !.k = k, !.acc = acc,
                               !.pc = IF k < TraceShapes THEN "matching"
                                      ELSE IF acc = <<>> THEN "renaming"
                                      ELSE "writing"]]
    /\ UNCHANGED <<main_pc, mm_run, mm_traces, mm_disk, valhalla_finished_bbox_sections,
                   mm_log, mm_writers>>
    /\ UNCHANGED <<gridVars, extractVars, filterVars, aggVars, classifyVars, pullVars>>

\* lines 227-236, one round of the loop over regions.items(): the file name
\* gets the identifier uuid8 and the rows are dumped to it with open(.., "wb"),
\* which replaces a file of that name; an exception ends the call
WriteRegion(f, uuid8, raises) ==
    /\ mm_task[f].pc = "writing"
    /\ LET t == mm_task[f]
           entry == t.acc[t.written + 1]
           region_filename ==
                get_map_match_region_filename_with_identifier(entry.region, uuid8)
       IN  IF raises
           THEN /\ mm_task' = [mm_task EXCEPT ![f] =
                        [t EXCEPT !.pc = "returned", !.outcome = "write_raised",
                                  !.acc = <<>>]]
                /\ UNCHANGED <<mm_disk, mm_log, mm_writers>>
           ELSE /\ mm_disk' = [mm_disk EXCEPT ![region_filename] = Some(entry.rows)]
                /\ mm_log' = [mm_log EXCEPT ![entry.region] = Logged(@, entry.rows)]
                /\ mm_writers' = [mm_writers EXCEPT ![f] = @ \cup {mm_run}]
                /\ mm_task' = [mm_task EXCEPT ![f] =
                        IF t.written + 1 = Len(t.acc)
                        THEN [t EXCEPT !.written = t.written + 1, !.pc = "renaming",
                                       !.acc = <<>>]
                        ELSE [t EXCEPT !.written = t.written + 1]]
    /\ UNCHANGED <<main_pc, mm_run, mm_traces, valhalla_finished_bbox_sections>>
    /\ UNCHANGED <<gridVars, extractVars, filterVars, aggVars, classifyVars, pullVars>>

\* line 121: os.rename(trace_filename, processed_trace_filename)
RenameTrace(f, raises) ==
    /\ mm_task[f].pc = "renaming"
    /\ IF raises
       THEN /\ mm_task' = [mm_task EXCEPT ![f] =
                    [@ EXCEPT !.pc = "returned", !.outcome = "rename_raised"]]
            /\ UNCHANGED mm_traces
       ELSE /\ mm_traces' = [mm_traces EXCEPT ![f] = "processed"]
            /\ mm_task' = [mm_task EXCEPT ![f] =
                    [@ EXCEPT !.pc = "counting", !.renamed = TRUE]]
    /\ UNCHANGED <<main_pc, mm_run, mm_disk, valhalla_finished_bbox_sections,
                   mm_log, mm_writers>>
    /\ UNCHANGED <<gridVars, extractVars, filterVars, aggVars, classifyVars, pullVars>>

\* lines 122-123: the increment under the lock, and the return
CountFinished(f) ==
    /\ mm_task[f].pc = "counting"
    /\ valhalla_finished_bbox_sections' = valhalla_finished_bbox_sections + 1
    /\ mm_task' = [mm_task EXCEPT ![f] =
            [@ EXCEPT !.pc = "returned", !.outcome = "finished", !.counted = TRUE]]
    /\ UNCHANGED <<main_pc, mm_run, mm_traces, mm_disk, mm_log, mm_writers>>
    /\ UNCHANGED <<gridVars, extractVars, filterVars, aggVars, classifyVars, pullVars>>

\* the pool is terminated (the end of the with block of line 53, or main
\* interrupted): the calls that have not returned never do
Terminated(tasks) ==
    [f \in DOMAIN tasks |->
        IF tasks[f].pc = "returned" THEN tasks[f]
        ELSE CrashedTask]

\* valhalla.py lines 62-69 and main.py lines 101-112: the result is ready,
\* run leaves the pool and returns, and main calls aggregation.run
RunReturns ==
    /\ main_pc = "map_matching"
    /\ result_ready(mm_task)
    /\ main_pc' = "aggregating"
    /\ mm_task' = Terminated(mm_task)
    /\ UNCHANGED <<mm_run, mm_traces, mm_disk, valhalla_finished_bbox_sections,
                   mm_log, mm_writers>>
    /\ UNCHANGED <<gridVars, extractVars, filterVars, aggVars, classifyVars, pullVars>>

\* main.py lines 112-114: aggregation.run has read the files and returned
MainAggregation ==
    /\ main_pc = "aggregating"
    /\ main_pc' = "done"
    /\ UNCHANGED <<mm_run, mm_task, mm_traces, mm_disk, valhalla_finished_bbox_sections,
                   mm_log, mm_writers>>
    /\ UNCHANGED <<gridVars, extractVars, filterVars, aggVars, classifyVars, pullVars>>

\* the worker process running the call of f dies at some step of it: the
\* call never returns, the result never becomes ready (line 62 loops for
\* ever), and main is interrupted
WorkerDies(f) ==
    /\ main_pc = "map_matching"
    /\ mm_task[f].pc \in {"matching", "writing", "renaming", "counting"}
    /\ main_pc' = "killed"
    /\ mm_task' = Terminated(mm_task)
    /\ UNCHANGED <<mm_run, mm_traces, mm_disk, valhalla_finished_bbox_sections,
                   mm_log, mm_writers>>
    /\ UNCHANGED <<gridVars, extractVars, filterVars, aggVars, classifyVars, pullVars>>

\* main is run again over the same directories: a new counter (line 52) and
\* one call per bbox section (line 58)
MainRerun ==
    /\ main_pc \in {"done", "killed"}
    /\ mm_run < MaxRuns
    /\ main_pc' = "map_matching"
    /\ mm_run' = mm_run + 1
    /\ mm_task' = [f \in Sections |-> QueuedTask]
    /\ valhalla_finished_bbox_sections' = 0
    /\ UNCHANGED <<mm_traces, mm_disk, mm_log, mm_writers>>
    /\ UNCHANGED <<gridVars, extractVars, filterVars, aggVars, classifyVars, pullVars>>

MatchNext ==
    \/ \E f \in Sections :
            \/ CheckProcessed(f)
            \/ \E outcome \in {"matched", "skipped", "raised"} : MatchShape(f, outcome)
            \/ \E uuid8 \in MatchUuids : \E raises \in BOOLEAN : WriteRegion(f, uuid8, raises)
            \/ \E raises \in BOOLEAN : RenameTrace(f, raises)
            \/ CountFinished(f)
            \/ WorkerDies(f)
    \/ RunReturns
    \/ MainAggregation

\* one run of main
SpecMatch == MatchInit /\ [][MatchNext]_vars

RerunNext == MatchNext \/ MainRerun

\* up to MaxRuns runs of main, one after the other, over the same directories
SpecRerun == MatchInit /\ [][RerunNext]_vars

-----------------------------------------------------------------------------
(* Claims about perform_interp_extrap, checked under SpecInterp.           *)

\* the (density, type) arrays of a grid
Slots == Densities \X ArrayTypes
ArrIn(sl) == config_in[sl[1]][sl[2]]
ArrOut(sl) == config[sl[1]][sl[2]]

MinIdx(speeds) == SetMin(indexes_with_data(speeds))
MaxIdx(speeds) == SetMax(indexes_with_data(speeds))

\* the array has at least two present values and passes the guard of the code
Fills(speeds) ==
    /\ Cardinality(indexes_with_data(speeds)) >= 2
    /\ ~(\E i, k \in indexes_with_data(speeds) :
            /\ i < k
            /\ \A m \in indexes_with_data(speeds) : ~(i < m /\ m < k)
            /\ Val(speeds[i]) < Val(speeds[k]))

\* some present value is not strictly less than the present value before it
SomeNotLess(speeds) ==
    \E i, k \in indexes_with_data(speeds) :
        /\ i < k
        /\ \A m \in indexes_with_data(speeds) : ~(i < m /\ m < k)
        /\ Val(speeds[k]) >= Val(speeds[i])

\* some present value is strictly greater than the present value before it
SomeGreater(speeds) ==
    \E i, k \in indexes_with_data(speeds) :
        /\ i < k
        /\ \A m \in indexes_with_data(speeds) : ~(i < m /\ m < k)
        /\ Val(speeds[k]) > Val(speeds[i])

\* C2 as stated: an array in which some present value is not strictly less
\* than the present value before it (equal or greater) is returned unchanged.
C2_UnchangedWhenNotStrictlyLess ==
    grid_pc = "done" =>
        \A sl \in Slots : SomeNotLess(ArrIn(sl)) => ArrOut(sl) = ArrIn(sl)

\* C2 amended: an array in which some present value is strictly greater than
\* the present value before it is returned unchanged; equal neighbours do not
\* stop the filling.
C2_UnchangedWhenGreater ==
    grid_pc = "done" =>
        \A sl \in Slots : SomeGreater(ArrIn(sl)) => ArrOut(sl) = ArrIn(sl)

\* an array shaped like the fixture [50, 62, None, 35, 30] of tests.py:
\* [30, 45, None, 5, None] at urban link_turning (45 > 30) keeps its gaps
C2_Witness ==
    /\ grid_pc = "done"
    /\ ArrIn(<<"urban", "link_turning">>) =
            (0 :> Some(30) @@ 1 :> Some(45) @@ 2 :> None @@ 3 :> Some(5) @@ 4 :> None)
    /\ ArrOut(<<"urban", "link_turning">>) = ArrIn(<<"urban", "link_turning">>)

\* C3: every entry filled by extrapolation (an empty index below the minimum
\* or above the maximum present index) is at most 140 and at least 10.
C3_ExtrapolatedWithinBounds ==
    grid_pc = "done" =>
        \A sl \in Slots : \A j \in DOMAIN ArrIn(sl) :
            ( /\ Fills(ArrIn(sl))
              /\ (j < MinIdx(ArrIn(sl)) \/ j > MaxIdx(ArrIn(sl))) )
            => /\ ArrOut(sl)[j] # None
               /\ Val(ArrOut(sl)[j]) <= 140
               /\ Val(ArrOut(sl)[j]) >= 10

\* the value of slot i after the interpolation step, computed from the array
\* on entry: the present value, or the rounded point of the line through the
\* present neighbours
AfterInterp(speeds, i) ==
    IF speeds[i] # None THEN Val(speeds[i])
    ELSE LET lo == SetMax({m \in indexes_with_data(speeds) : m < i})
             hi == SetMin({m \in indexes_with_data(speeds) : m > i})
             num == Val(speeds[lo]) * (hi - i) + Val(speeds[hi]) * (i - lo)
             den == hi - lo
             q == num \div den
         IN  IF 2 * (num % den) = den THEN (IF q % 2 = 0 THEN q ELSE q + 1)
             ELSE (2 * num + den) \div (2 * den)

\* C9: in a filled array every empty index j above maxIdx is set to
\* max(value[maxIdx] + (j - maxIdx) * slope, 10), slope = value[maxIdx] -
\* value[maxIdx - 1], the latter after interpolation; 55, 45, 30 at indices
\* 2, 3, 5 of 8 slots give 22 and 14 at indices 6 and 7.
C9_HighEndFormula ==
    grid_pc = "done" =>
        \A sl \in Slots :
            Fills(ArrIn(sl)) =>
                LET a == ArrIn(sl)
                    hi == MaxIdx(a)
                    slope == Val(a[hi]) - AfterInterp(a, hi - 1)
                IN  \A j \in DOMAIN a :
                        j > hi =>
                            ArrOut(sl)[j] =
                                Some(Max2(Val(a[hi]) + (j - hi) * slope, 10))

Fixture_rural_way ==
    (0 :> None @@ 1 :> None @@ 2 :> Some(55) @@ 3 :> Some(45) @@
     4 :> None @@ 5 :> Some(30) @@ 6 :> None @@ 7 :> None)

C9_Witness ==
    /\ grid_pc = "done"
    /\ ArrIn(<<"rural", "way">>) = Fixture_rural_way
    /\ ArrOut(<<"rural", "way">>)[4] = Some(38)
    /\ ArrOut(<<"rural", "way">>)[6] = Some(22)
    /\ ArrOut(<<"rural", "way">>)[7] = Some(14)

\* the low-end fill of the code with the empty indexes taken in the order of
\* `order` instead of the order the stack is popped in
LowFillInOrder(a, order) ==
    LET lo == MinIdx(a)
        interp == Interpolate(a)
    IN  PopFillLow(interp, lo, Val(interp[lo + 1]) - Val(interp[lo]), order)

AscendingBelow(n) == [k \in 1..n |-> n - k]
DescendingBelow(n) == [k \in 1..n |-> k - 1]

\* C10: in a filled array every empty index j below minIdx is set to
\* min(value[minIdx] - (minIdx - j) * slope, 140), slope = value[minIdx + 1] -
\* value[minIdx], and filling the indexes lowest first or highest first gives
\* the same array.
C10_LowEndFormula ==
    grid_pc = "done" =>
        \A sl \in Slots :
            Fills(ArrIn(sl)) =>
                LET a == ArrIn(sl)
                    lo == MinIdx(a)
                    slope == AfterInterp(a, lo + 1) - Val(a[lo])
                IN  /\ \A j \in DOMAIN a :
                            j < lo =>
                                ArrOut(sl)[j] =
                                    Some(Min2(Val(a[lo]) - (lo - j) * slope, 140))
                    /\ \A j \in DOMAIN a :
                            j < lo =>
                                /\ LowFillInOrder(a, AscendingBelow(lo))[j] = ArrOut(sl)[j]
                                /\ LowFillInOrder(a, DescendingBelow(lo))[j] = ArrOut(sl)[j]

\* low-end extrapolation that hits the cap: [None, None, None, 55, 5, ...]
\* gives 105 at index 2 and 140 (not 155, 205) at indices 1 and 0
C10_Witness ==
    /\ grid_pc = "done"
    /\ ArrIn(<<"rural", "way">>)[3] = Some(55)
    /\ ArrIn(<<"rural", "way">>)[4] = Some(5)
    /\ indexes_with_data(ArrIn(<<"rural", "way">>)) = {3, 4}
    /\ ArrOut(<<"rural", "way">>)[2] = Some(105)
    /\ ArrOut(<<"rural", "way">>)[1] = Some(140)
    /\ ArrOut(<<"rural", "way">>)[0] = Some(140)

\* the present indexes next to k: the last one below and the first one above
PresentBelow(speeds, k) == SetMax({m \in indexes_with_data(speeds) : m < k})
PresentAbove(speeds, k) == SetMin({m \in indexes_with_data(speeds) : m > k})

\* v is an integer nearest to the point at k of the line through the present
\* neighbours of k: |v - (v_lo * (hi - k) + v_hi * (k - lo)) / (hi - lo)| <= 1/2
NearestToLine(speeds, k, v) ==
    LET lo == PresentBelow(speeds, k)
        hi == PresentAbove(speeds, k)
        num == Val(speeds[lo]) * (hi - k) + Val(speeds[hi]) * (k - lo)
        den == hi - lo
    IN  /\ 2 * (v * den - num) <= den
        /\ 2 * (num - v * den) <= den

\* C11: in a filled array every empty index strictly between the minimum and
\* the maximum present index holds the piecewise-linear interpolation over
\* the present (index, value) pairs rounded to the nearest integer, and the
\* interpolation step writes no index outside that open range.
C11_InterpolationPiecewiseLinear ==
    grid_pc = "done" =>
        \A sl \in Slots :
            Fills(ArrIn(sl)) =>
                LET a == ArrIn(sl)
                IN  \A k \in DOMAIN a :
                        IF MinIdx(a) < k /\ k < MaxIdx(a)
                        THEN a[k] = None =>
                                /\ ArrOut(sl)[k] # None
                                /\ NearestToLine(a, k, Val(ArrOut(sl)[k]))
                        ELSE Interpolate(a)[k] = a[k]

\* [160, None, None, 45, None, None, None, None] at urban roundabout: 122 and
\* 83 (121.67 and 83.33 on the line) are written at indexes 1 and 2, and the
\* interpolation leaves the indexes above 3 empty
C11_Witness ==
    /\ grid_pc = "done"
    /\ ArrIn(<<"urban", "roundabout">>) =
            (0 :> Some(160) @@ 1 :> None @@ 2 :> None @@ 3 :> Some(45) @@
             4 :> None @@ 5 :> None @@ 6 :> None @@ 7 :> None)
    /\ ArrOut(<<"urban", "roundabout">>)[1] = Some(122)
    /\ ArrOut(<<"urban", "roundabout">>)[2] = Some(83)
    /\ \A k \in 4..7 : Interpolate(ArrIn(<<"urban", "roundabout">>))[k] = None

\* C12: perform_interp_extrap changes no scalar field, no identifier and no
\* array slot that was filled on entry; it writes only slots that were empty.
C12_WritesOnlyEmptySlots ==
    grid_pc = "done" =>
        /\ DOMAIN config = DOMAIN config_in
        /\ \A k \in DOMAIN config_in \ Densities : config[k] = config_in[k]
        /\ \A d \in Densities :
            /\ DOMAIN config[d] = DOMAIN config_in[d]
            /\ \A t \in SCALAR_TYPES : config[d][t] = config_in[d][t]
            /\ \A t \in ArrayTypes :
                /\ DOMAIN config[d][t] = DOMAIN config_in[d][t]
                /\ \A i \in DOMAIN config_in[d][t] :
                        config_in[d][t][i] # None => config[d][t][i] = config_in[d][t][i]

\* [None, 160, 5, None, None] at suburban link_exiting is filled at its
\* empty slots; 160 and 5, the driveway scalar and iso3166-1 are as on entry
C12_Witness ==
    /\ grid_pc = "done"
    /\ ArrIn(<<"suburban", "link_exiting">>) =
            (0 :> None @@ 1 :> Some(160) @@ 2 :> Some(5) @@ 3 :> None @@ 4 :> None)
    /\ ArrOut(<<"suburban", "link_exiting">>) =
            (0 :> Some(140) @@ 1 :> Some(160) @@ 2 :> Some(5) @@ 3 :> Some(10) @@
             4 :> Some(10))
    /\ config["rural"]["driveway"] = Some(16)
    /\ config["iso3166-1"] = Some("FR")

\* C13: an array with no present value or exactly one is left unchanged.
C13_UnchangedBelowTwoValues ==
    grid_pc = "done" =>
        \A sl \in Slots :
            Cardinality(indexes_with_data(ArrIn(sl))) <= 1 => ArrOut(sl) = ArrIn(sl)

\* rural way with 45 at index 3 only comes back with 45 at index 3 only, and
\* the empty urban way comes back empty
C13_Witness ==
    /\ grid_pc = "done"
    /\ indexes_with_data(ArrIn(<<"rural", "way">>)) = {3}
    /\ ArrIn(<<"rural", "way">>)[3] = Some(45)
    /\ ArrOut(<<"rural", "way">>) = ArrIn(<<"rural", "way">>)
    /\ indexes_with_data(ArrIn(<<"urban", "way">>)) = {}
    /\ ArrOut(<<"urban", "way">>) = NoneList(8)

\* C14: in an array with exactly two present values, at i < j with
\* v_i > v_j, every index k with i < k < j is filled with a value between v_j
\* and v_i inclusive, and the filled values do not increase with k.
C14_TwoPointInterpolationMonotone ==
    grid_pc = "done" =>
        \A sl \in Slots :
            LET a == ArrIn(sl)
                out == ArrOut(sl)
            IN  (/\ Cardinality(indexes_with_data(a)) = 2
                 /\ Val(a[MinIdx(a)]) > Val(a[MaxIdx(a)]))
                    => \A k \in (MinIdx(a) + 1)..(MaxIdx(a) - 1) :
                        /\ out[k] # None
                        /\ Val(a[MaxIdx(a)]) <= Val(out[k])
                        /\ Val(out[k]) <= Val(a[MinIdx(a)])
                        /\ Val(out[k]) <= Val(out[k - 1])

\* 55 at index 2 and 30 at index 5 of rural way, nothing else: 47 and 38
\* (46.67 and 38.33 on the line) are written at indexes 3 and 4
C14_Witness ==
    /\ grid_pc = "done"
    /\ indexes_with_data(ArrIn(<<"rural", "way">>)) = {2, 5}
    /\ ArrIn(<<"rural", "way">>)[2] = Some(55)
    /\ ArrIn(<<"rural", "way">>)[5] = Some(30)
    /\ ArrOut(<<"rural", "way">>)[3] = Some(47)
    /\ ArrOut(<<"rural", "way">>)[4] = Some(38)

\* C26: whenever the extrapolation computes a slope on an array with at least
\* two present values that passes the guard, the two slots it reads (i and
\* i + 1 at the first filled index i, i and i - 1 at the last filled index i)
\* are inside the array and filled: the call ends without an IndexError and
\* without arithmetic on None.
C26_SlopeReadsInsideAndFilled ==
    grid_pc # "start" =>
        /\ grid_pc # "raised"
        /\ \A sl \in Slots :
                Fills(ArrIn(sl)) =>
                    LET mid == Interpolate(ArrIn(sl))
                        i == MinIdx(mid)
                        low == ExtrapLow(mid, 0, <<>>).speeds
                        h == MaxIdx(low)
                    IN  /\ i + 1 \in DOMAIN mid
                        /\ mid[i] # None /\ mid[i + 1] # None
                        /\ h - 1 \in DOMAIN low
                        /\ low[h] # None /\ low[h - 1] # None

\* rural way with 55 and 30 in its last two slots: the low slope reads slots
\* 6 and 7, the last of the array, and the six slots below are filled
C26_Witness ==
    /\ grid_pc = "done"
    /\ indexes_with_data(ArrIn(<<"rural", "way">>)) = {6, 7}
    /\ ArrIn(<<"rural", "way">>)[6] = Some(55)
    /\ ArrIn(<<"rural", "way">>)[7] = Some(30)
    /\ ArrOut(<<"rural", "way">>)[5] = Some(80)
    /\ ArrOut(<<"rural", "way">>)[0] = Some(140)

\* C28: whenever an array is filled (at least two present values, guard
\* passed), the resulting array is non-increasing in index order over all of
\* its slots, the capped and floored ones included.
C28_FilledNonIncreasing ==
    grid_pc = "done" =>
        \A sl \in Slots :
            Fills(ArrIn(sl)) =>
                \A i \in DOMAIN ArrOut(sl) :
                    i > 0 =>
                        /\ ArrOut(sl)[i] # None
                        /\ ArrOut(sl)[i - 1] # None
                        /\ Val(ArrOut(sl)[i]) <= Val(ArrOut(sl)[i - 1])

\* C29: perform_interp_extrap applied to its own result returns that result.
C29_Idempotent ==
    grid_pc = "again" => config = config_in

\* the second call on the rural way array filled from 55 and 30 in the last
\* two slots: every slot is present, the guard passes, both slopes are
\* computed and nothing is written
C29_Witness ==
    /\ grid_pc = "again"
    /\ config_in["rural"]["way"] =
            (0 :> Some(140) @@ 1 :> Some(140) @@ 2 :> Some(140) @@ 3 :> Some(130) @@
             4 :> Some(105) @@ 5 :> Some(80) @@ 6 :> Some(55) @@ 7 :> Some(30))
    /\ config["rural"]["way"] = config_in["rural"]["way"]

-----------------------------------------------------------------------------
(* Claims about the classifiers, checked under SpecClassify.               *)

\* the key is present in the edge and holds a true value
HasRoundabout(edge) == "roundabout" \in DOMAIN edge /\ edge.roundabout = TRUE
HasSign(edge) == "sign" \in DOMAIN edge /\ Len(edge.sign) > 0

\* the eight types of the grid
EdgeTypes ==
    {"way", "link_exiting", "link_turning", "roundabout",
     "driveway", "alley", "parking_aisle", "drive-through"}

\* C21: the type follows a fixed precedence.  A special use gives its own
\* type (drive_through as drive-through) even with the roundabout flag set;
\* otherwise a set roundabout flag gives roundabout even on a ramp or turn
\* channel; otherwise a ramp or turn channel gives link_exiting with a
\* non-empty sign and link_turning with no sign or an empty one; every other
\* edge gives way; the result is one of the eight types.
C21_TypePrecedence ==
    cl_pc = "done" =>
        /\ cl_type # None
        /\ Val(cl_type) \in EdgeTypes
        /\ Val(cl_type) =
            (CASE cl_edge.use \in {"driveway", "alley", "parking_aisle"} -> cl_edge.use
               [] cl_edge.use = "drive_through" -> "drive-through"
               [] OTHER ->
                    CASE HasRoundabout(cl_edge) -> "roundabout"
                      [] OTHER ->
                            CASE cl_edge.use \in {"ramp", "turn_channel"} /\ HasSign(cl_edge)
                                    -> "link_exiting"
                              [] cl_edge.use \in {"ramp", "turn_channel"} /\ ~HasSign(cl_edge)
                                    -> "link_turning"
                              [] OTHER -> "way")

\* a drive_through edge with the roundabout flag set is typed drive-through
C21_Witness ==
    /\ cl_pc = "done"
    /\ cl_edge.use = "drive_through"
    /\ HasRoundabout(cl_edge)
    /\ cl_type = Some("drive-through")

\* C22: every non-negative density gets exactly one class: rural below 5,
\* suburban from 5 up to but excluding 11, urban from 11 on.
C22_DensityClasses ==
    cl_pc = "done" =>
        /\ cl_class # None
        /\ Val(cl_class) \in {"rural", "suburban", "urban"}
        /\ (Val(cl_class) = "rural") = (cl_density < 5)
        /\ (Val(cl_class) = "suburban") = (5 <= cl_density /\ cl_density < 11)
        /\ (Val(cl_class) = "urban") = (cl_density >= 11)

\* the boundary value 11 is urban
C22_Witness ==
    /\ cl_pc = "done"
    /\ cl_density = 11
    /\ cl_class = Some("urban")

-----------------------------------------------------------------------------
(* Claims about measurements_to_config, checked under SpecGrid.            *)

\* C8: every produced grid has way and roundabout arrays of exactly 8
\* entries and link_exiting and link_turning arrays of exactly 5 entries in
\* each density class, every entry being empty or a non-negative integer.
C8_GridSchema ==
    grid_pc = "done" =>
        \A d \in Densities :
            /\ d \in DOMAIN config
            /\ \A t \in ArrayTypes :
                /\ t \in DOMAIN config[d]
                /\ DOMAIN config[d][t] =
                        (IF t \in {"way", "roundabout"} THEN 0..7 ELSE 0..4)
                /\ \A i \in DOMAIN config[d][t] :
                        \/ config[d][t][i] = None
                        \/ /\ Len(config[d][t][i]) = 1
                           /\ Val(config[d][t][i]) \in Nat

\* rural way measured at motorway (100) and tertiary (8): 77, 54, 31 are
\* interpolated and the three slots above tertiary are floored at 10
C8_Witness ==
    /\ grid_pc = "done"
    /\ config_in["rural"]["way"] =
            (0 :> Some(100) @@ 1 :> None @@ 2 :> None @@ 3 :> None @@
             4 :> Some(8) @@ 5 :> None @@ 6 :> None @@ 7 :> None)
    /\ config["rural"]["way"] =
            (0 :> Some(100) @@ 1 :> Some(77) @@ 2 :> Some(54) @@ 3 :> Some(31) @@
             4 :> Some(8) @@ 5 :> Some(10) @@ 6 :> Some(10) @@ 7 :> Some(10))

\* the road class of a rank
RoadClassOfRank(i) ==
    CHOOSE rc \in DOMAIN ROAD_CLASS_INDEX_MAPPING : ROAD_CLASS_INDEX_MAPPING[rc] = i

\* the keys <<density, road class, type>> of the groups of the rows
GroupKeys == {<<df_data[i][1], df_data[i][2], df_data[i][3]>> : i \in DOMAIN df_data}

\* cell holds an integer nearest to the median of the group of key
HoldsMedianOf(cell, key) ==
    /\ cell # None
    /\ 2 * Val(cell) - Median2(GroupValues(df_data, key)) \in {-1, 0, 1}

\* C15: before gap filling, the slot of rank i of a way or roundabout array
\* (i in 0..7) and of a link array (i in 0..4) holds the rounded median of
\* the group of its (density, road class, type), a scalar holds the rounded
\* median of each group of its density and type, a cell without a group is
\* empty, and no other key is added to the grid.
C15_CellsHoldGroupMedians ==
    grid_pc = "done" =>
        /\ DOMAIN config_in \ {"iso3166-1", "iso3166-2"} = Densities
        /\ \A d \in Densities :
            /\ DOMAIN config_in[d] = ArrayTypes \cup SCALAR_TYPES
            /\ \A t \in ArrayTypes :
                /\ DOMAIN config_in[d][t] = 0..(ArrayLen(t) - 1)
                /\ \A i \in DOMAIN config_in[d][t] :
                        IF <<d, RoadClassOfRank(i), t>> \in GroupKeys
                        THEN HoldsMedianOf(config_in[d][t][i], <<d, RoadClassOfRank(i), t>>)
                        ELSE config_in[d][t][i] = None
            /\ \A t \in SCALAR_TYPES :
                IF \E key \in GroupKeys : key[1] = d /\ key[3] = t
                THEN \A key \in GroupKeys :
                        (key[1] = d /\ key[3] = t) => HoldsMedianOf(config_in[d][t], key)
                ELSE config_in[d][t] = None

-----------------------------------------------------------------------------
(* Claims about add_map_matches_for_shape, checked under SpecExtract.      *)

\* C1: when the extraction of a response is aborted, for an end elapsed time
\* below the previous one or a speed above 160 km/h, the accumulator equals
\* its value from before the response was processed.
C1_AbortDiscardsAll ==
    ex_outcome \in {"not_monotonic", "too_fast"} => map_matches = map_matches_before

\* C5: a response of status 200 that lacks matched_points raises
\* ConnectionError and adds no tuple to the accumulator.
C5_MalformedRaisesConnectionError ==
    (ex_shapes > 0 /\ ex_resp.status = 200 /\ ~ex_resp.has_matched_points)
        => (ex_outcome = "ConnectionError" /\ map_matches = map_matches_before)

\* the tuples the accumulator mm holds for the country c and the region r
TuplesOf(mm, c, r) ==
    IF c \in DOMAIN mm THEN (IF r \in DOMAIN mm[c] THEN mm[c][r] ELSE <<>>) ELSE <<>>

\* the country and region codes of resp["admins"]
AdminKeys == {<<Admins[a].country_code, Admins[a].state_code>> : a \in DOMAIN Admins}

\* mm2 is mm with exactly one tuple more, of the speed kph
OneTupleAdded(mm, mm2, kph) ==
    \E k \in AdminKeys :
        /\ Len(TuplesOf(mm2, k[1], k[2])) = Len(TuplesOf(mm, k[1], k[2])) + 1
        /\ SubSeq(TuplesOf(mm2, k[1], k[2]), 1, Len(TuplesOf(mm, k[1], k[2])))
                = TuplesOf(mm, k[1], k[2])
        /\ TuplesOf(mm2, k[1], k[2])[Len(TuplesOf(mm2, k[1], k[2]))][4] = kph
        /\ \A o \in AdminKeys \ {k} : TuplesOf(mm2, o[1], o[2]) = TuplesOf(mm, o[1], o[2])

\* the call reads the first edge, an interior edge without aborting, or ends
\* at the last edge
ReadsFirstEdge == ex_shapes' = ex_shapes + 1 /\ ex_pc' = "loop"
ReadsInteriorEdge == ex_edges' = ex_edges + 1 /\ ex_outcome' = "running"
EndsAtLastEdge == ex_pc = "loop" /\ ex_outcome' = "returned"

\* what the claim allows a step of a call that does not abort
C18_Step ==
    /\ ReadsFirstEdge =>
            /\ ex_edge'.position = "first"
            /\ prev_t' = ex_edge'.elapsed_time
            /\ map_matches' = map_matches
    /\ EndsAtLastEdge =>
            /\ ex_edge'.position = "last"
            /\ map_matches' = map_matches
    /\ ReadsInteriorEdge =>
            /\ ex_edge'.position = "interior"
            /\ IF ex_edge'.elapsed_time > prev_t
               THEN \E kph \in 0..MAXIMUM_SPEED :
                        /\ kph * 1000 * (ex_edge'.elapsed_time - prev_t)
                                = ex_edge'.length_m * 3600
                        /\ OneTupleAdded(map_matches, map_matches', kph)
                        /\ prev_t' = ex_edge'.elapsed_time
               ELSE /\ ex_edge'.elapsed_time = prev_t
                    /\ map_matches' = map_matches
                    /\ prev_t' = prev_t

\* C18: in a call that does not abort, the first and the last edge give no
\* tuple; an interior edge gives exactly one tuple when its end elapsed time
\* is above the running previous time, of speed length / (t - previous) *
\* 3600 and at most 160, and none when it equals it; the previous time
\* starts at the first edge's end time and moves only with a tuple.
C18_TuplesForInteriorEdges == [][C18_Step]_vars

\* the tuples the accumulator holds
TupleCount(mm) ==
    LET keys == {<<c, r>> \in AdminKeys : TuplesOf(mm, c, r) # <<>>}
        RECURSIVE Sum(_)
        Sum(S) == IF S = {} THEN 0
                  ELSE LET k == CHOOSE x \in S : TRUE
                       IN  Len(TuplesOf(mm, k[1], k[2])) + Sum(S \ {k})
    IN  Sum(keys)

\* the first call has read two interior edges, one ending at the previous
\* time and one after it, and has returned at the last edge with one tuple
C18_Witness ==
    /\ ex_shapes = 1
    /\ ex_edges = 2
    /\ ex_outcome = "returned"
    /\ ex_edge.position = "last"
    /\ map_matches_before = <<>>
    /\ TupleCount(map_matches) = 1

\* the unmatched points of a list of matched points
Unmatched(matched_points) ==
    {i \in DOMAIN matched_points : matched_points[i].type = "unmatched"}

\* the last response had status 200 and carried matched_points
WellFormedResponse ==
    ex_shapes > 0 /\ ex_resp.status = 200 /\ ex_resp.has_matched_points

\* C19: a response is discarded before any edge is read exactly when more
\* than 25% of its matched_points are unmatched; at exactly 25% its edges
\* are read.
C19_DiscardAboveQuarterUnmatched ==
    WellFormedResponse =>
        IF 4 * Cardinality(Unmatched(ex_resp.matched_points))
                > Len(ex_resp.matched_points)
        THEN /\ ex_outcome = "too_many_unmatched"
             /\ ex_edge = NoEdge
             /\ map_matches = map_matches_before
        ELSE /\ ex_outcome \in {"running", "returned", "not_monotonic", "too_fast"}
             /\ ex_edge # NoEdge

\* a response with one unmatched point of four has given a tuple
C19_Witness ==
    /\ WellFormedResponse
    /\ Cardinality(Unmatched(ex_resp.matched_points)) = 1
    /\ Len(ex_resp.matched_points) = 4
    /\ ex_outcome = "returned"
    /\ TupleCount(map_matches) = TupleCount(map_matches_before) + 1

-----------------------------------------------------------------------------
(* Claims about trace_filter.run, checked under SpecFilter.                *)

\* the consecutive pairs of a sequence, by the index of their first point
Pairs(sequence) == 1..(Len(sequence) - 1)

TimeDelta(sequence, i) == sequence[i + 1].time - sequence[i].time

\* the pairs whose time delta exceeds 5 s
GapPairs(sequence) ==
    {i \in Pairs(sequence) :
        TimeDelta(sequence, i) > MAXIMUM_TIME_BETWEEN_ADJACENT_POINTS}

\* the pairs whose implied speed exceeds 160 km/h: d / 1000 / t * 3600 > 160,
\* for the distance d along the meridian (m) and t # 0
FastPairs(sequence) ==
    {i \in Pairs(sequence) :
        LET t == TimeDelta(sequence, i)
            d == haversine(sequence[i].lon, sequence[i].lat,
                           sequence[i + 1].lon, sequence[i + 1].lat)
        IN  \/ t > 0 /\ 36 * d > MAXIMUM_SPEED_BETWEEN_ADJACENT_POINTS * 10 * t
            \/ t < 0 /\ 36 * d < MAXIMUM_SPEED_BETWEEN_ADJACENT_POINTS * 10 * t}

\* the sequences the noise check is applied to: those not dropped before it
ReachesNoiseCheck(i) == tf_verdicts[i] \notin {"min_time", "out_of_order"}

\* C4 as stated: a sequence is rejected for noise exactly when its poor pairs,
\* each counted once, are more than 25% of its consecutive pairs.
C4_NoiseByShareOfPairs ==
    tf_pc = "done" =>
        \A i \in DOMAIN trace_data :
            ReachesNoiseCheck(i) =>
                (tf_verdicts[i] = "noise"
                    <=> Cardinality(GapPairs(trace_data[i]) \cup FastPairs(trace_data[i]))
                            * MAXIMUM_POOR_MEASUREMENTS_PERCENT_DEN
                        > MAXIMUM_POOR_MEASUREMENTS_PERCENT_NUM
                            * Cardinality(Pairs(trace_data[i])))

\* C4, amended: a sequence is rejected for noise exactly when the number of
\* pairs over 5 s plus the number of pairs over 160 km/h (a pair over both
\* counts twice) is more than 25% of its number of points; a sequence with one
\* pair over 5 s only, out of four pairs, is not rejected for noise.
C4_NoiseByShareOfPoints ==
    tf_pc = "done" =>
        \A i \in DOMAIN trace_data :
            ReachesNoiseCheck(i) =>
                /\ tf_verdicts[i] = "noise"
                    <=> (Cardinality(GapPairs(trace_data[i]))
                            + Cardinality(FastPairs(trace_data[i])))
                            * MAXIMUM_POOR_MEASUREMENTS_PERCENT_DEN
                        > MAXIMUM_POOR_MEASUREMENTS_PERCENT_NUM * Len(trace_data[i])
                /\ (/\ Cardinality(Pairs(trace_data[i])) = 4
                    /\ Cardinality(GapPairs(trace_data[i])) = 1
                    /\ FastPairs(trace_data[i]) = {})
                        => tf_verdicts[i] # "noise"

\* a sequence of four pairs, one of them over 5 s and none over 160 km/h,
\* has passed the noise check and is kept
C4_Witness ==
    /\ tf_pc = "done"
    /\ trace_data = <<SequenceOf(<< <<120, 1200>>, <<1, 40>>, <<1, 40>>, <<1, 40>> >>)>>
    /\ tf_verdicts = <<"accepted">>
    /\ filtered_trace_data = trace_data

\* the sequence has a consecutive pair with a negative time delta
HasNegativeDelta(sequence) ==
    \E i \in Pairs(sequence) : TimeDelta(sequence, i) < 0

\* C16: every sequence run returns has non-decreasing timestamps, and a
\* sequence with a negative time delta between two consecutive points is
\* not returned, whatever its duration, distance, poor pairs and mean speed.
C16_AcceptedTimeNonDecreasing ==
    tf_pc = "done" =>
        /\ \A k \in DOMAIN filtered_trace_data :
                ~HasNegativeDelta(filtered_trace_data[k])
        /\ \A i \in DOMAIN trace_data :
                HasNegativeDelta(trace_data[i]) =>
                    /\ tf_verdicts[i] # "accepted"
                    /\ \A k \in DOMAIN filtered_trace_data :
                            filtered_trace_data[k] # trace_data[i]

\* 121 s and 1320 m with one step back of 1 s after the first pair: long and
\* fast enough, one poor count for five points, dropped for its order
C16_Witness ==
    /\ tf_pc = "done"
    /\ trace_data =
            <<SequenceOf(<< <<120, 1200>>, <<-1, 40>>, <<1, 40>>, <<1, 40>> >>)>>
    /\ tf_verdicts = <<"out_of_order">>
    /\ filtered_trace_data = <<>>

\* C17: run applied to a list it has returned gives that list back, the
\* sequences in the same order and unmodified.
C17_RunIdempotent ==
    tf_pc = "refiltered" => filtered_trace_data = trace_data

\* a list of two different sequences, both kept by the first call, is
\* returned whole and in order by the second
C17_Witness ==
    /\ tf_pc = "refiltered"
    /\ Len(trace_data) = 2
    /\ trace_data[1] # trace_data[2]
    /\ filtered_trace_data = trace_data

-----------------------------------------------------------------------------
(* Claims about aggregation.run, checked under SpecAgg.                    *)

\* how many times the row r occurs in the list data
Count(r, data) == Cardinality({i \in DOMAIN data : data[i] = r})

AggRows == UNION {{rows[i] : i \in DOMAIN rows} : rows \in AggRowLists}

\* how many times r is stored in the readable files i..Len that satisfy P
RECURSIVE Stored(_, _, _)
Stored(r, P(_), i) ==
    IF i > Len(map_match_files) THEN 0
    ELSE (IF map_match_files[i].readable /\ P(map_match_files[i])
          THEN Count(r, map_match_files[i].rows) ELSE 0)
         + Stored(r, P, i + 1)

\* how many times r occurs in the data of the grids of the given scope
RECURSIVE InGrids(_, _, _, _)
InGrids(r, country, region, k) ==
    IF k > Len(final_sources) THEN 0
    ELSE (IF final_sources[k].country = country /\ final_sources[k].region = region
          THEN Count(r, final_sources[k].data) ELSE 0)
         + InGrids(r, country, region, k + 1)

\* the run went through the aggregation (no final config was there before)
Aggregated == agg_pc = "done" /\ config_file # "stale"

\* C6: every row stored in a readable file is counted once in the data of
\* its country's grid and once in the world grid's data, and in a region
\* grid exactly when its region is not empty; no grid is built for the empty
\* region.
C6_CountedOncePerScope ==
    Aggregated =>
        /\ \A r \in AggRows :
            /\ InGrids(r, None, None, 1) = Stored(r, LAMBDA f : TRUE, 1)
            /\ \A c \in AggCountries :
                /\ InGrids(r, Some(c), None, 1)
                        = Stored(r, LAMBDA f : f.country = c, 1)
                /\ \A reg \in AggRegions \ {""} :
                        InGrids(r, Some(c), Some(reg), 1)
                            = Stored(r, LAMBDA f : f.country = c /\ f.region = reg, 1)
        /\ \A k \in DOMAIN final_sources : final_sources[k].region # Some("")

\* two readable files of one country, one of the empty region and one of
\* region CA, give a grid for CA, a grid for the country with the rows of
\* both, and a world grid
C6_Witness ==
    /\ Aggregated
    /\ Len(map_match_files) = 2
    /\ \A i \in 1..2 : map_match_files[i].readable /\ map_match_files[i].country = "US"
    /\ map_match_files[1].region = "" /\ map_match_files[2].region = "CA"
    /\ Len(final_sources) = 3
    /\ final_sources[1] = Source(Some("US"), Some("CA"), map_match_files[2].rows)
    /\ final_sources[2] = Source(Some("US"), None,
                                 map_match_files[1].rows \o map_match_files[2].rows)
    /\ final_sources[3] = Source(None, None, final_sources[2].data)

\* the number of rows of the readable files from the i-th on
RECURSIVE ReadableRows(_)
ReadableRows(i) ==
    IF i > Len(map_match_files) THEN 0
    ELSE (IF map_match_files[i].readable THEN Len(map_match_files[i].rows) ELSE 0)
         + ReadableRows(i + 1)

\* C7: a run that aggregated no observation writes no final config file, and
\* a final config file is written only by a run that aggregated at least one.
C7_NoOutputWithoutObservations ==
    agg_pc = "done" =>
        /\ ReadableRows(1) = 0 => config_file # "written" /\ final_config = <<>>
        /\ config_file = "written" => ReadableRows(1) > 0 /\ Len(final_config) > 0

\* a run over files none of which could be read has written nothing
C7_Witness ==
    /\ agg_pc = "done"
    /\ config_file = "absent"
    /\ Len(map_match_files) > 0
    /\ \A i \in DOMAIN map_match_files : ~map_match_files[i].readable
    /\ final_config = <<>>

\* the identifier keys of a grid
IdentifierKeys == {"iso3166-1", "iso3166-2"}

\* C20: a grid of final_config carries an identifier key only with a value:
\* the world grid carries neither identifier, a country grid carries
\* iso3166-1 with the country code and no iso3166-2, a region grid carries
\* both, and no identifier key holds null.
C20_IdentifiersOnlyWhenSet ==
    agg_pc = "done" =>
        \A k \in DOMAIN final_config :
            LET grid == final_config[k]
                scope == final_sources[k]
            IN  /\ \A id \in IdentifierKeys \cap DOMAIN grid : grid[id] # None
                /\ IF scope.country = None
                   THEN /\ scope.region = None
                        /\ IdentifierKeys \cap DOMAIN grid = {}
                   ELSE /\ "iso3166-1" \in DOMAIN grid
                        /\ grid["iso3166-1"] = scope.country
                        /\ IF scope.region = None
                           THEN "iso3166-2" \notin DOMAIN grid
                           ELSE /\ "iso3166-2" \in DOMAIN grid
                                /\ grid["iso3166-2"] = scope.region

\* the file written for one file of FR and region TX holds a region grid
\* with both identifiers, a country grid with iso3166-1 only and a world
\* grid with neither
C20_Witness ==
    /\ agg_pc = "done"
    /\ config_file = "written"
    /\ Len(final_config) = 3
    /\ DOMAIN final_config[1] = Densities \cup IdentifierKeys
    /\ final_config[1]["iso3166-1"] = Some("FR")
    /\ final_config[1]["iso3166-2"] = Some("TX")
    /\ DOMAIN final_config[2] = Densities \cup {"iso3166-1"}
    /\ final_config[2]["iso3166-1"] = Some("FR")
    /\ DOMAIN final_config[3] = Densities

-----------------------------------------------------------------------------
(* Claims about the trace-pulling phase, checked under SpecPull.           *)

\* every call has returned without an exception, having pulled or skipped
AllBlocksReturnedWithoutError ==
    \A b \in Blocks :
        /\ sq_task[b].pc = "returned"
        /\ sq_task[b].outcome \in {"pulled", "skipped"}

\* C27: once the call has returned without error for every block, pulled or
\* skipped, finished_sequence_id_blocks equals the number of blocks and
\* finished_bbox_sections is what it was when the phase began; the counter
\* never exceeds the number of blocks.
C27_CounterEqualsBlocks ==
    /\ finished_sequence_id_blocks <= MaxBlocks
    /\ AllBlocksReturnedWithoutError =>
            /\ finished_sequence_id_blocks = MaxBlocks
            /\ finished_bbox_sections = bbox_sections_done

-----------------------------------------------------------------------------
(* Claims about the map-matching step, checked under SpecMatch (one run of *)
(* main) and SpecRerun (several runs).                                     *)

\* C23: aggregation.run starts only after every map_match_for_bbox call of
\* valhalla.run has returned: while and after the grids are computed no call
\* is at a step, so no observation file is created or written.
C23_AggregationAfterWorkers ==
    main_pc \in {"aggregating", "done"} =>
        \A f \in Sections : mm_task[f].pc = "returned"

\* the aggregation has started with a region file on disk, written by a
\* call that finished, while the other call ended in an exception
C23_Witness ==
    /\ main_pc = "aggregating"
    /\ \E n \in MatchNames : mm_disk[n] # None
    /\ mm_task[1].outcome = "finished"
    /\ mm_task[2].outcome = "shape_raised"

\* C24: the observations of a trace file are written at most once over all
\* runs: no two calls of map_match_for_bbox write a file for the same trace
\* file.
C24_WrittenAtMostOnce ==
    \A f \in Sections : Cardinality(mm_writers[f]) <= 1

\* how often row is in the files of region on disk
RECURSIVE DiskCount(_, _, _)
DiskCount(names, region, row) ==
    IF names = {} THEN 0
    ELSE LET n == CHOOSE x \in names : TRUE
         IN  (IF mm_disk[n] # None /\ RegionOfFile(n) = region
              THEN Count(row, Val(mm_disk[n])) ELSE 0)
             + DiskCount(names \ {n}, region, row)

\* C25: once all writes are complete, the rows on disk for a region are the
\* multiset union of the rows the workers wrote for it: every row is on disk
\* as often as it was written.
C25_NoRowsLost ==
    main_pc \in {"aggregating", "done"} =>
        \A region \in MatchRegions : \A row \in DOMAIN mm_log[region] :
            DiskCount(MatchNames, region, row) = mm_log[region][row]

\* C30: a call in which add_map_matches_for_shape raised has written no
\* file, has not renamed its trace file and has not counted itself, and the
\* trace file is still unprocessed for the next run.
C30_RaiseWritesNothing ==
    \A f \in Sections :
        mm_task[f].outcome = "shape_raised" =>
            /\ mm_task[f].pc = "returned"
            /\ mm_task[f].written = 0
            /\ ~mm_task[f].renamed
            /\ ~mm_task[f].counted
            /\ mm_traces[f] = "unprocessed"
            /\ mm_writers[f] = {}

\* the second shape of the first trace file raised after its first shape had
\* been posted; the call of the second file finished and was counted
C30_Witness ==
    /\ mm_task[1].outcome = "shape_raised"
    /\ mm_task[1].k = 1
    /\ mm_task[2].outcome = "finished"
    /\ mm_task[2].written = 1
    /\ valhalla_finished_bbox_sections = 1
    /\ mm_traces = (1 :> "unprocessed" @@ 2 :> "processed")

====
